---- MODULE Spec2Model ----
(***************************************************************************)
(* A model of the news ingestion core: the reconciled store (newsStore),   *)
(* the backfill fetchers (apiService), the notification service and the    *)
(* per-source WebSocket connection actor (WebSocketService).               *)
(*                                                                         *)
(* Text is a sequence of one-character strings, so that substring search   *)
(* and case folding are computed and not assumed.  Event ids are numbers:  *)
(* 0 is a missing _id, GenBase + n is the n-th generated id.               *)
(***************************************************************************)
EXTENDS Integers, Sequences, FiniteSets, TLC

\* ------------------------------------------------------------------ bounds
MaxGen == 1
MaxRequests == 2
FillerCount == 99
MaxResponseLen == 2
MaxSteps == 4
MaxFullSteps == 2
MaxCalls == 2
TicksPerWindow == 3
MaxTicks == 3
MaxNotifEvents == 2
MaxTransports == 2
MaxStaleGuards == 2
MaxBgTimers == 1
MaxBgAttempts == 1
MaxConnSteps == 3
MaxBackoffCalls == 1
PlateauFailures == 12
MaxFetches == 2
MaxFrames == 2
MaxConfigSteps == 2
MaxSinkSteps == 3
SinkElapseStep == 1000
ElapseStep == 7500

\* ------------------------------------------------------- program constants
NewsLimit == 100
GenBase == 1000
NOTIFICATION_DEDUPE_WINDOW == 60000
maxReconnectAttempts == 10
BaseReconnectDelay == 1000
GrowthNum == 3
GrowthDen == 2
MaxReconnectDelay == 60000
MAX_RECONNECT_ATTEMPTS == 10
FrameGenBase == 1500
TreeErrorBase == 2000
PhoenixErrorBase == 3000
FetchRetries == 2
FetchTimeout == 15000
RetryBaseDelay == 1000
RetryMaxDelay == 10000
SinkRetries == 2
SinkBaseDelay == 1000

VARIABLES
  news,              \* useNewsStore state.news
  filterKeywords,    \* useNewsStore state.filterKeywords (keyword texts, in order)
  showTwitterPosts,  \* useNewsStore state.showTwitterPosts
  disableApiRequests,\* useNewsStore state.disableApiRequests
  storeError,        \* useNewsStore state.error ("" is null)
  isLoading,         \* useNewsStore state.isLoading
  inflight,          \* per backfill source: the store snapshot a running fetch holds
  genCount,          \* number of ids generated so far (Date.now()/Math.random())
  notifRequests,     \* calls of notificationService.scheduleNotification, in order
  evicted,           \* events cut off by slice(0, 100) in the last insert or merge
  budget,            \* store operations still to be explored (bounds the run)
  lastOp             \* the last store operation and what it did

storeVars == <<news, filterKeywords, showTwitterPosts, disableApiRequests,
               storeError, isLoading,
               inflight, genCount, notifRequests, evicted, budget, lastOp>>

VARIABLES
  isInitialized,          \* NotificationService.isInitialized
  initializationPromise,  \* "none" (null), "pending" or "settled"
  permission,             \* what Notifications.getPermissionsAsync reports
  monitoring,             \* permissionMonitoringInterval is set
  recentNotifications,    \* NotificationService.recentNotifications
  expiryTimers,           \* pending setTimeout(delete id) callbacks: [id, due]
  now,                    \* the clock, in ms
  calls,                  \* the scheduleNotification calls: position and outcome
  skipped                 \* notificationStats.skipped

notifVars == <<isInitialized, initializationPromise, permission, monitoring,
               recentNotifications, expiryTimers, now, calls, skipped>>

VARIABLES
  socket,              \* WebSocketService.socket: a transport id, 0 is null
  transports,          \* the WebSocket objects created and not yet forgotten
  staleGuards,         \* armed connect-timeout guards no transport event clears
  reconnectTimeout,    \* WebSocketService.reconnectTimeout is set
  reconnectTimers,     \* setTimeout callbacks of scheduleReconnect still pending
  heartbeatInterval,   \* WebSocketService.heartbeatInterval is set
  url,                 \* WebSocketService.url ("" is unset)
  isConnecting,        \* WebSocketService.isConnecting
  reconnectAttempts,   \* WebSocketService.reconnectAttempts
  wasConnectedBefore,  \* WebSocketService.wasConnectedBefore
  isCleaned,           \* WebSocketService.isCleaned
  isCleanDisconnect,   \* WebSocketService.isCleanDisconnect
  isHandlingErrorOrClose, \* WebSocketService.isHandlingErrorOrClose
  deferredSignals,     \* pending 100 ms retries of handleError / handleClose
  treeConnected,       \* useNewsStore state.treeConnected
  serverConfigUrl,     \* serverConfig.treeWebsocketUrl
  serverConfigToken,   \* serverConfig.treeToken
  authToken,           \* WebSocketService.authToken ("" is null)
  bgReconnectAttempts, \* backgroundService reconnectAttempts.tree
  bgTimers,            \* pending setTimeout callbacks of checkAndReconnectWebSockets
  lastDelay,           \* the delay scheduleReconnect armed last in this run
  prevDelay,           \* the delay it armed before that
  scheduled,           \* delays armed in this run of failures
  lastFailure,         \* how the last attempt failed, "none" once another began
  disconnectDone,      \* disconnect() has completed, connect() not called since
  opens,               \* 1 once an open event was handled, 0 again at cleanup()
  loginFrame,          \* the 'login <token>' frame sent in the actor's last step
  lastEvent            \* the last call, timer or transport event of the actor

connVars == <<socket, transports, staleGuards, reconnectTimeout,
              reconnectTimers,
              heartbeatInterval, url, isConnecting, reconnectAttempts,
              wasConnectedBefore, isCleaned, isCleanDisconnect,
              isHandlingErrorOrClose, deferredSignals, treeConnected,
              serverConfigUrl, serverConfigToken, authToken,
              bgReconnectAttempts, bgTimers, lastDelay,
              prevDelay, scheduled, lastFailure, disconnectDone, opens,
              loginFrame, lastEvent>>

VARIABLES
  fetchPc,     \* fetchWithRetry: "idle", "requesting", "waiting", "returned", "thrown"
  fetchSrc,    \* the fetcher that called it: "tree" or "phoenix"
  attempt,     \* the loop variable of fetchWithRetry
  fetchCalls,  \* fetch() calls made by this fetchWithRetry call
  waited,      \* ms since the current fetch() was issued
  delays,      \* the delays awaited before retries, in order
  lastError    \* fetchWithRetry's lastError: its message, "" is null

fetchVars == <<fetchPc, fetchSrc, attempt, fetchCalls, waited, delays,
               lastError>>

VARIABLES
  lastFrame    \* the last message frame an actor handled, and the clock then

frameVars == <<lastFrame>>

VARIABLES
  sink         \* per notification request: the showMobileNotification calls

sinkVars == <<sink>>

vars == <<storeVars, notifVars, connVars, fetchVars, frameVars, sinkVars>>

\* -------------------------------------------------------------------- text
NoText == <<>>

LowerChar(c) ==
  CASE c = "A" -> "a" [] c = "B" -> "b" [] c = "C" -> "c" [] c = "E" -> "e"
    [] c = "H" -> "h" [] c = "T" -> "t" [] c = "X" -> "x" [] OTHER -> c

UpperChar(c) ==
  CASE c = "a" -> "A" [] c = "b" -> "B" [] c = "c" -> "C" [] c = "e" -> "E"
    [] c = "h" -> "H" [] c = "t" -> "T" [] c = "x" -> "X" [] OTHER -> c

ToLowerCase(s) == [i \in DOMAIN s |-> LowerChar(s[i])]
ToUpperCase(s) == [i \in DOMAIN s |-> UpperChar(s[i])]

\* String.prototype.includes: k occurs in s as a contiguous run.
Includes(s, k) ==
  \E i \in 0..(Len(s) - Len(k)) : SubSeq(s, i + 1, i + Len(k)) = k

Range(s) == {s[i] : i \in DOMAIN s}

\* -------------------------------------------------------------- textUtils
RECURSIVE ReplaceAll(_, _, _)
\* String.prototype.replace(/pat/g, rep) for a literal pattern.
ReplaceAll(s, pat, rep) ==
  IF ~Includes(s, pat) THEN s
  ELSE IF SubSeq(s, 1, Len(pat)) = pat
       THEN rep \o ReplaceAll(SubSeq(s, Len(pat) + 1, Len(s)), pat, rep)
       ELSE <<Head(s)>> \o ReplaceAll(Tail(s), pat, rep)

\* The entity table of the fallback branch (there is no DOM on the device),
\* in the order the source applies it.
EntityTable ==
  << <<<<"&","g","t",";">>, <<">">>>>,
     <<<<"&","l","t",";">>, <<"<">>>>,
     <<<<"&","a","m","p",";">>, <<"&">>>>,
     <<<<"&","q","u","o","t",";">>, <<"\"">>>>,
     <<<<"&","a","p","o","s",";">>, <<"'">>>>,
     <<<<"&","#","3","9",";">>, <<"'">>>>,
     <<<<"&","#","x","2","F",";">>, <<"/">>>>,
     <<<<"&","#","x","2","7",";">>, <<"'">>>>,
     <<<<"&","#","x","2","B",";">>, <<"+">>>>,
     <<<<"&","n","b","s","p",";">>, <<" ">>>>,
     <<<<"&","n","d","a","s","h",";">>, <<"ndash">>>>,
     <<<<"&","m","d","a","s","h",";">>, <<"mdash">>>>,
     <<<<"&","l","d","q","u","o",";">>, <<"\"">>>>,
     <<<<"&","r","d","q","u","o",";">>, <<"\"">>>>,
     <<<<"&","b","u","l","l",";">>, <<"bull">>>>,
     <<<<"&","h","e","l","l","i","p",";">>, <<"hellip">>>>,
     <<<<"\n">>, <<" ">>>> >>

RECURSIVE DecodeFrom(_, _)
DecodeFrom(s, i) ==
  IF i > Len(EntityTable) THEN s
  ELSE DecodeFrom(ReplaceAll(s, EntityTable[i][1], EntityTable[i][2]), i + 1)

decodeHtmlEntities(text) == IF text = NoText THEN NoText ELSE DecodeFrom(text, 1)

IsSpace(c) == c = " " \/ c = "\n"

RECURSIVE TrimStart(_)
TrimStart(s) == IF s # <<>> /\ IsSpace(Head(s)) THEN TrimStart(Tail(s)) ELSE s

RECURSIVE TrimEnd(_)
TrimEnd(s) ==
  IF s # <<>> /\ IsSpace(s[Len(s)]) THEN TrimEnd(SubSeq(s, 1, Len(s) - 1)) ELSE s

Trim(s) == TrimEnd(TrimStart(s))

\* String.prototype.indexOf, 0-based, -1 when absent.
IndexOf(s, k) ==
  LET at == {i \in 0..(Len(s) - Len(k)) : SubSeq(s, i + 1, i + Len(k)) = k}
  IN IF at = {} THEN -1 ELSE CHOOSE i \in at : \A j \in at : i <= j

RECURSIVE DropNonSpace(_)
DropNonSpace(s) ==
  IF s # <<>> /\ ~IsSpace(Head(s)) THEN DropNonSpace(Tail(s)) ELSE s

RECURSIVE RemoveLinks(_, _)
\* replace(/<prefix>\S+/g, ''): the prefix and the run of non-space characters
\* after it (at least one) are removed.
RemoveLinks(s, prefix) ==
  IF Len(s) <= Len(prefix) THEN s
  ELSE IF /\ SubSeq(s, 1, Len(prefix)) = prefix
          /\ ~IsSpace(s[Len(prefix) + 1])
       THEN RemoveLinks(DropNonSpace(SubSeq(s, Len(prefix) + 1, Len(s))), prefix)
       ELSE <<Head(s)>> \o RemoveLinks(Tail(s), prefix)

RECURSIVE CollapseSpaces(_)
\* replace(/\s{2,}/g, ' ')
CollapseSpaces(s) ==
  IF Len(s) < 2 THEN s
  ELSE IF IsSpace(s[1]) /\ IsSpace(s[2])
       THEN <<" ">> \o CollapseSpaces(TrimStart(s))
       ELSE <<Head(s)>> \o CollapseSpaces(Tail(s))

StripRT(s) ==
  IF Len(s) >= 3 /\ ToLowerCase(SubSeq(s, 1, 3)) = <<"r","t",":">>
  THEN TrimStart(SubSeq(s, 4, Len(s))) ELSE s

StripQuote(s) ==
  LET q == IndexOf(s, <<"Q","u","o","t","e"," ","[","@">>)
  IN IF q # -1 THEN Trim(SubSeq(s, 1, q)) ELSE s

StripEllipsis(s) ==
  LET t == TrimEnd(s)
  IN IF t # <<>> /\ t[Len(t)] = "hellip" THEN SubSeq(t, 1, Len(t) - 1) ELSE s

cleanupTweetContent(text) ==
  IF text = NoText THEN NoText
  ELSE LET a == StripQuote(StripRT(text))
           b == RemoveLinks(RemoveLinks(a, <<"h","t","t","p",":","/","/">>),
                            <<"h","t","t","p","s",":","/","/">>)
           c == RemoveLinks(b, <<"t",".","c","o","/">>)
           d == RemoveLinks(c, <<"x",".","c","o","m","/">>)
           e == RemoveLinks(d, <<"t","w","i","t","t","e","r",".","c","o","m","/">>)
       IN Trim(CollapseSpaces(StripEllipsis(e)))

\* ---------------------------------------------------------- keyword match
\* First keyword, in list order, found in the lower-cased title or body;
\* NoText when none (null / undefined in the source).
FirstMatchFrom(item, keywords, i) ==
  LET hits == {j \in i..Len(keywords) :
                 \/ Includes(ToLowerCase(item.title), keywords[j])
                 \/ Includes(ToLowerCase(item.body), keywords[j])}
  IN IF hits = {} THEN NoText
     ELSE keywords[CHOOSE j \in hits : \A h \in hits : j <= h]

\* The search restricted to the title.
checkForKeywordMatchTitleOnly(item, keywords) ==
  LET hits == {j \in DOMAIN keywords :
                 Includes(ToLowerCase(item.title), keywords[j])}
  IN IF hits = {} THEN NoText
     ELSE keywords[CHOOSE j \in hits : \A h \in hits : j <= h]

checkForKeywordMatch(item, keywords) == FirstMatchFrom(item, keywords, 1)

findMatchedKeyword(item, keywords) == FirstMatchFrom(item, keywords, 1)

\* ------------------------------------------------------------ the events
\* info.quotedUser of an event without quoted content (undefined).
NoQuotedUser == [name |-> NoText, screen_name |-> NoText, text |-> NoText]

Item(id, title, body, link, time, source, twitterId, major) ==
  [_id |-> id, title |-> title, body |-> body, url |-> link, time |-> time,
   source |-> source, twitterId |-> twitterId, major |-> major,
   isHighlighted |-> FALSE, matchedKeyword |-> NoText,
   quotedUser |-> NoQuotedUser]

\* The events the transports and the backfill endpoints deliver.
NewsItems ==
  { Item(1, <<"B","t","c">>, NoText, "u1", 3, "News", FALSE, FALSE),
    Item(2, <<"e","t","h">>, <<"b","t","c">>, "u1", 2, "News", FALSE, FALSE),
    Item(3, <<"B","t","c">>, NoText, "", 5, "Terminal", FALSE, FALSE),
    Item(0, NoText, NoText, "", 1, "News", FALSE, TRUE),
    Item(1, <<"x">>, NoText, "u2", 4, "api", FALSE, FALSE),
    Item(4, <<"@","a">>, NoText, "", 3, "X", TRUE, FALSE),
    [Item(5, <<"a","b">>, NoText, "", 2, "News", FALSE, FALSE)
       EXCEPT !.isHighlighted = TRUE] }

\* The texts a user enters as filter keywords.
Keywords == { <<"b","t","c">>, <<"E","T","H">>, <<" ","B","t","c"," ">>, <<" ">> }

\* mockNews (src/mocks/news is not part of the sources): a sorted list of
\* distinct events.
mockNews ==
  << Item(901, <<"m","1">>, NoText, "m1", 2, "News", FALSE, FALSE),
     Item(902, <<"m","2">>, NoText, "m2", 1, "News", FALSE, FALSE) >>

\* A store filled by earlier inserts: FillerCount distinct events, newest
\* first (time 4 for the first half, time 2 for the rest).
FillerNews ==
  [i \in 1..FillerCount |->
     Item(100 + i, NoText, NoText, "", IF 2 * i <= FillerCount THEN 4 ELSE 2,
          "News", FALSE, FALSE)]

\* ------------------------------------------------------------ the sorting
\* Array.prototype.sort((a, b) => b.time - a.time): stable, descending.
RECURSIVE ConcatDesc(_, _)
ConcatDesc(s, times) ==
  IF times = {} THEN <<>>
  ELSE LET t == CHOOSE x \in times : \A y \in times : y <= x
       IN SelectSeq(s, LAMBDA e : e.time = t) \o ConcatDesc(s, times \ {t})

SortDescUnsorted(s) == s

\* The events of s grouped by time, newest group first, each group in the
\* order it has in s: what a stable sort with this comparator returns.
SortDesc(s) == ConcatDesc(s, {s[i].time : i \in DOMAIN s})

SliceOffByOne(s, n) == SubSeq(s, 1, IF Len(s) < n + 1 THEN Len(s) ELSE n + 1)

\* Array.prototype.slice(0, n)
Slice(s, n) == SubSeq(s, 1, IF Len(s) < n THEN Len(s) ELSE n)

SliceRest(s, n) == SubSeq(s, (IF Len(s) < n THEN Len(s) ELSE n) + 1, Len(s))

\* ---------------------------------------------------------- deduplication
SameEventIdOnly(a, b) == a._id = b._id

\* The three-way test of addNews and of both fetchers.
SameEvent(a, b) ==
  \/ a._id = b._id
  \/ (a.url # "" /\ b.url # "" /\ a.url = b.url)
  \/ (a.title # NoText /\ b.title # NoText /\ a.title = b.title)

Exists(list, item) == \E i \in DOMAIN list : SameEvent(list[i], item)

isTwitterOrXPost(item) ==
  \/ item.source = "X"
  \/ item.source = "Twitter"
  \/ (item.twitterId /\ Includes(item.title, <<"@">>))

\* --------------------------------------------------------------- the store
Sources == {"tree", "phoenix"}

Tick ==
  /\ budget > 0
  /\ budget' = budget - 1
  /\ UNCHANGED <<notifVars, connVars, fetchVars, frameVars, sinkVars>>

NoItem == Item(0, NoText, NoText, "", 0, "", FALSE, FALSE)

\* lastOp: the operation, the event it was called with, what it did with it,
\* the keyword addNews found and the number of scheduleNotification calls;
\* for a merge, the source and the response it applied, which the start of
\* the next fetch keeps.
NoOp == [op |-> "init", item |-> NoItem, outcome |-> "none", keyword |-> NoText,
         requests |-> 0, src |-> "none", data |-> <<>>]

\* The all-caps test of the highlight rule: title?.toUpperCase() === title.
IsAllCaps(item) == ToUpperCase(item.title) = item.title

\* addNews(newsItem): the updater passed to set(), applied to the current
\* state.  op names the caller for lastOp.
addNews(newsItem, op) ==
  LET withId == IF newsItem._id = 0
                THEN [newsItem EXCEPT !._id = GenBase + genCount + 1]
                ELSE newsItem
      newMatchedKeyword == checkForKeywordMatch(withId, filterKeywords)
      highlighted == \/ IsAllCaps(withId)
                     \/ withId.source = "Terminal"
                     \/ withId.major
                     \/ newMatchedKeyword # NoText
      matchedKeyword == IF withId.matchedKeyword # NoText
                        THEN withId.matchedKeyword ELSE newMatchedKeyword
      enhancedNewsItem ==
        [withId EXCEPT !.isHighlighted = highlighted \/ withId.isHighlighted,
                       !.matchedKeyword = matchedKeyword]
      notify == /\ newMatchedKeyword # NoText
                /\ \/ withId.matchedKeyword = NoText
                   \/ withId.matchedKeyword # newMatchedKeyword
      sorted == SortDesc(<<enhancedNewsItem>> \o news)
  IN IF disableApiRequests /\ newsItem.source = "api"
     THEN /\ lastOp' = [NoOp EXCEPT !.op = op, !.item = newsItem,
                                    !.outcome = "skipped"]
          /\ UNCHANGED <<news, genCount, notifRequests, evicted>>
     ELSE IF ~showTwitterPosts /\ isTwitterOrXPost(withId)
     THEN /\ lastOp' = [NoOp EXCEPT !.op = op, !.item = newsItem,
                                    !.outcome = "skipped"]
          /\ genCount' = IF newsItem._id = 0 THEN genCount + 1 ELSE genCount
          /\ UNCHANGED <<news, notifRequests, evicted>>
     ELSE IF Exists(news, withId)
     THEN /\ lastOp' = [NoOp EXCEPT !.op = op, !.item = newsItem,
                                    !.outcome = "duplicate"]
          /\ genCount' = IF newsItem._id = 0 THEN genCount + 1 ELSE genCount
          /\ UNCHANGED <<news, notifRequests, evicted>>
     ELSE /\ news' = Slice(sorted, NewsLimit)
          /\ evicted' = Range(SliceRest(sorted, NewsLimit))
          /\ genCount' = IF newsItem._id = 0 THEN genCount + 1 ELSE genCount
          /\ notifRequests' =
               IF notify
               THEN Append(notifRequests,
                           [id |-> enhancedNewsItem._id, keyword |-> newMatchedKeyword])
               ELSE notifRequests
          /\ lastOp' = [NoOp EXCEPT !.op = op, !.item = newsItem,
                                    !.outcome = "inserted",
                                    !.keyword = newMatchedKeyword,
                                    !.requests = IF notify THEN 1 ELSE 0]

\* WebSocketService.processNewsItem(newsItem): the message path's last step.
processNewsItem(newsItem) ==
  LET matchedKeyword == FirstMatchFrom(newsItem, filterKeywords, 1)
      marked == IF matchedKeyword # NoText
                THEN [newsItem EXCEPT !.matchedKeyword = matchedKeyword]
                ELSE newsItem
  IN IF ~showTwitterPosts /\ isTwitterOrXPost(newsItem)
     THEN /\ lastOp' = [NoOp EXCEPT !.op = "processNewsItem",
                                    !.item = newsItem, !.outcome = "skipped"]
          /\ UNCHANGED <<news, genCount, notifRequests, evicted>>
     ELSE addNews(marked, "processNewsItem")

\* A direct call of the store's addNews action.
AddNews ==
  \E newsItem \in NewsItems :
    /\ Tick
    /\ newsItem._id = 0 => genCount < MaxGen
    /\ Len(notifRequests) < MaxRequests
    /\ addNews(newsItem, "addNews")
    /\ UNCHANGED <<filterKeywords, showTwitterPosts, disableApiRequests,
                   storeError, isLoading, inflight>>

\* A message frame carrying one event reaches an actor.
ProcessNewsItem ==
  \E newsItem \in NewsItems :
    /\ Tick
    /\ newsItem._id = 0 => genCount < MaxGen
    /\ Len(notifRequests) < MaxRequests
    /\ processNewsItem(newsItem)
    /\ UNCHANGED <<filterKeywords, showTwitterPosts, disableApiRequests,
                   storeError, isLoading, inflight>>

\* ------------------------------------------------------------- the backfill
Idle == [busy |-> FALSE, news |-> <<>>, filterKeywords |-> <<>>]

\* fetchTreeNews: data.map(...) of one item.
processTreeItem(item, keywords) ==
  LET isTwitterPost == Includes(item.title, <<"@">>) /\ item.twitterId
      t1 == IF isTwitterPost /\ item.title # NoText
            THEN cleanupTweetContent(item.title) ELSE item.title
      src == IF item.source = "Twitter" \/ isTwitterPost THEN "X" ELSE item.source
      decoded == [item EXCEPT !.title = decodeHtmlEntities(t1),
                              !.body = decodeHtmlEntities(item.body),
                              !.source = src]
  IN [decoded EXCEPT
        !.isHighlighted = \/ IsAllCaps(decoded)
                          \/ decoded.source = "Terminal"
                          \/ decoded.major,
        !.matchedKeyword = findMatchedKeyword(decoded, keywords)]

\* fetchPhoenixNews: data.map(...) of one item; g is the id to generate.
processPhoenixItem(item, keywords, g) ==
  LET isTwitterPost == item.source = "Twitter"
      useBody == isTwitterPost /\ item.body # NoText
      quoteMarker == <<"&","g","t",";","&","g","t",";","Q","U","O","T","E"," ">>
      quoteIndex == IndexOf(item.body, quoteMarker)
      quoteContent == SubSeq(item.body, quoteIndex + Len(quoteMarker) + 1,
                             Len(item.body))
      fromBody == IF quoteIndex # -1 /\ IndexOf(quoteContent, <<")">>) # -1
                  THEN Trim(SubSeq(item.body, 1, quoteIndex))
                  ELSE item.body
      t0 == IF useBody THEN fromBody ELSE item.title
      b0 == IF useBody THEN NoText ELSE item.body
      t1 == decodeHtmlEntities(t0)
      t2 == IF isTwitterPost THEN cleanupTweetContent(t1) ELSE t1
      newsItem == [item EXCEPT !._id = IF item._id = 0 THEN g ELSE item._id,
                               !.title = t2,
                               !.body = decodeHtmlEntities(b0),
                               !.source = IF isTwitterPost THEN "X" ELSE item.source]
  IN [newsItem EXCEPT
        !.isHighlighted = IsAllCaps(newsItem) \/ newsItem.major,
        !.matchedKeyword = findMatchedKeyword(newsItem, keywords)]

processResponse(src, data, keywords) ==
  [i \in DOMAIN data |->
     IF src = "tree" THEN processTreeItem(data[i], keywords)
     ELSE processPhoenixItem(data[i], keywords, GenBase + genCount + i)]

\* processedNews.filter(newItem => !existingNews.some(...))
SelectNew(existingNews, processedNews) ==
  LET keep == {i \in DOMAIN processedNews : ~Exists(existingNews, processedNews[i])}
      F[i \in 0..Len(processedNews)] ==
        IF i = 0 THEN <<>>
        ELSE IF i \in keep THEN Append(F[i - 1], processedNews[i]) ELSE F[i - 1]
  IN F[Len(processedNews)]

\* The backfill responses: short lists of events, repeats included.
BackfillItems == {x \in NewsItems : x._id \in {0, 1, 2, 4}}

Responses ==
  UNION {[1..n -> BackfillItems] : n \in 1..MaxResponseLen}

\* fetchTreeNews / fetchPhoenixNews up to the request: the store state is read
\* once, at the call.
FetchStart(src) ==
  /\ Tick
  /\ ~inflight[src].busy
  /\ inflight' = [inflight EXCEPT ![src] =
                    [busy |-> TRUE, news |-> news, filterKeywords |-> filterKeywords]]
  /\ isLoading' = TRUE
  /\ storeError' = IF src = "tree" THEN "" ELSE storeError
  /\ lastOp' = IF lastOp.op = "merge"
               THEN [lastOp EXCEPT !.op = "fetchStart"]
               ELSE [NoOp EXCEPT !.op = "fetchStart"]
  /\ UNCHANGED <<news, filterKeywords, showTwitterPosts, disableApiRequests,
                 genCount, notifRequests, evicted>>

\* The response arrived: process, deduplicate against the news read at the
\* call, combine, sort, cut, setNews.
setMergedNews(src, data) ==
  LET existingNews == inflight[src].news
      processedNews == processResponse(src, data, inflight[src].filterKeywords)
      newNews == SelectNew(existingNews, processedNews)
      sorted == SortDesc(existingNews \o newNews)
      generated == Cardinality({i \in DOMAIN data : data[i]._id = 0})
  IN /\ inflight[src].busy
     /\ src = "phoenix" => genCount + Len(data) <= MaxGen + MaxResponseLen
     /\ news' = Slice(sorted, NewsLimit)
     /\ evicted' = Range(SliceRest(sorted, NewsLimit))
     /\ genCount' = IF src = "phoenix" /\ generated > 0
                    THEN genCount + Len(data) ELSE genCount
     /\ isLoading' = FALSE
     /\ inflight' = [inflight EXCEPT ![src] = Idle]
     /\ lastOp' = [NoOp EXCEPT !.op = "merge", !.src = src, !.data = data]
     /\ UNCHANGED <<filterKeywords, showTwitterPosts, disableApiRequests,
                    storeError, notifRequests>>

FetchSucceed(src) ==
  \E data \in Responses :
    /\ Tick
    /\ setMergedNews(src, data)

\* The request failed for good: the catch block.
FetchFail(src) ==
  /\ Tick
  /\ inflight[src].busy
  /\ storeError' = "fetch"
  /\ isLoading' = FALSE
  /\ news' = IF src = "tree" /\ Len(inflight[src].news) = 0 THEN mockNews ELSE news
  /\ evicted' = {}
  /\ inflight' = [inflight EXCEPT ![src] = Idle]
  /\ lastOp' = [NoOp EXCEPT !.op = "fetchFail"]
  /\ UNCHANGED <<filterKeywords, showTwitterPosts, disableApiRequests,
                 genCount, notifRequests>>

\* ---------------------------------------------------- the settings actions
AddFilterKeyword ==
  \E keyword \in Keywords :
    LET normalizedKeyword == Trim(ToLowerCase(keyword))
    IN
    /\ Tick
    /\ normalizedKeyword # NoText
    /\ normalizedKeyword \notin Range(filterKeywords)
    /\ filterKeywords' = Append(filterKeywords, normalizedKeyword)
    /\ lastOp' = [NoOp EXCEPT !.op = "settings"]
    /\ UNCHANGED <<news, showTwitterPosts, disableApiRequests, storeError,
                   isLoading, inflight, genCount, notifRequests, evicted>>

RemoveFilterKeyword ==
  \E i \in DOMAIN filterKeywords :
    /\ Tick
    /\ filterKeywords' = SubSeq(filterKeywords, 1, i - 1)
                           \o SubSeq(filterKeywords, i + 1, Len(filterKeywords))
    /\ lastOp' = [NoOp EXCEPT !.op = "settings"]
    /\ UNCHANGED <<news, showTwitterPosts, disableApiRequests, storeError,
                   isLoading, inflight, genCount, notifRequests, evicted>>

ToggleTwitterPosts ==
  /\ Tick
  /\ showTwitterPosts' = ~showTwitterPosts
  /\ lastOp' = [NoOp EXCEPT !.op = "settings"]
  /\ UNCHANGED <<news, filterKeywords, disableApiRequests, storeError,
                 isLoading, inflight, genCount, notifRequests, evicted>>

SetDisableApiRequests ==
  /\ Tick
  /\ disableApiRequests' = ~disableApiRequests
  /\ lastOp' = [NoOp EXCEPT !.op = "settings"]
  /\ UNCHANGED <<news, filterKeywords, showTwitterPosts, storeError,
                 isLoading, inflight, genCount, notifRequests, evicted>>

ResetNews ==
  /\ Tick
  /\ news # <<>>
  /\ news' = <<>>
  /\ evicted' = {}
  /\ lastOp' = [NoOp EXCEPT !.op = "resetNews"]
  /\ UNCHANGED <<filterKeywords, showTwitterPosts, disableApiRequests, storeError,
                 isLoading, inflight, genCount, notifRequests>>

\* ------------------------------------------------------ the format adapters
\* A parsed message payload: null, a number, or an object.  For an object,
\* item holds its fields (_id 0, time 0, "" and NoText are absent fields),
\* titleIsText tells whether title is a string (otherwise it is a number
\* whose decimal text is item.title), username and isQuote are the fields
\* of these names.
Payload(kind, item, titleIsText, username, isQuote) ==
  [kind |-> kind, item |-> item, titleIsText |-> titleIsText,
   username |-> username, isQuote |-> isQuote]

NullPayload == Payload("null", NoItem, TRUE, NoText, FALSE)

NumberPayload == Payload("number", NoItem, TRUE, NoText, FALSE)

EmptyObject == Payload("object", NoItem, TRUE, NoText, FALSE)

quoteMarker == <<"&","g","t",";","&","g","t",";","Q","U","O","T","E"," ">>

\* A repost body: the main content, the marker, "Name (@handle)" and the
\* quoted text.
QuoteBody(main, name, handle, text) ==
  main \o <<" ">> \o quoteMarker \o name \o <<" ","(","@">> \o handle
       \o <<")"," ">> \o text

Mains == { <<"h","e","l","l","o">>, <<" ","h","i">> }

Names == { <<"A","l","i","c","e">>, <<"A"," ","B">> }

Handles == { <<"a","l","i","c","e">> }

Texts == { <<"n","i","c","e">>, <<"o","k"," ">> }

\* Repost payloads of the second source.
QuotePayloads ==
  { Payload("object",
            Item(6, NoText, QuoteBody(main, name, handle, text), "", 5,
                 "Twitter", TRUE, FALSE),
            TRUE, handle, TRUE) :
      main \in Mains, name \in Names, handle \in Handles, text \in Texts }

\* A repost body whose quoted part has no parenthesis.
UnparsedQuotePayload ==
  Payload("object",
          Item(7, NoText,
               <<"h","i"," ">> \o quoteMarker \o <<"A"," ","o","k">>, "", 5,
               "Twitter", TRUE, FALSE),
          TRUE, <<"a">>, TRUE)

\* An object whose title is the number 5.
NumberTitlePayload ==
  Payload("object", Item(8, <<"5">>, NoText, "", 4, "News", FALSE, FALSE),
          FALSE, NoText, FALSE)

Payloads ==
  {NullPayload, NumberPayload, EmptyObject, NumberTitlePayload,
   UnparsedQuotePayload}
    \cup QuotePayloads
    \cup {Payload("object", x, TRUE, NoText, FALSE) :
            x \in {y \in NewsItems : y._id \in {3, 4}}}

\* The message frames: the text "pong", a text JSON.parse rejects, a JSON
\* value, or a JSON array of one value.
Frames ==
  {[kind |-> "pong", payload |-> NullPayload],
   [kind |-> "unparsable", payload |-> NullPayload]}
    \cup {[kind |-> k, payload |-> p] : k \in {"json", "array"}, p \in Payloads}

\* The readings of Date.now() at a frame.
Clock == {6, 7}

\* `error-tree-${Date.now()}` / `error-phoenix-${Date.now()}`
errorId(src, t) == (IF src = "tree" THEN TreeErrorBase ELSE PhoenixErrorBase) + t

ErrorTitle ==
  <<"E","r","r","o","r"," ","p","r","o","c","e","s","s","i","n","g"," ",
    "n","e","w","s"," ","i","t","e","m">>

\* The event the catch block of an adapter returns.
placeholder(src, t) ==
  Item(errorId(src, t), ErrorTitle, NoText, "", t, "Error", FALSE, FALSE)

\* String.prototype.replace(c, ''): the first occurrence only.
ReplaceFirst(s, c) ==
  LET i == IndexOf(s, <<c>>)
  IN IF i = -1 THEN s ELSE SubSeq(s, 1, i) \o SubSeq(s, i + 2, Len(s))

\* The handle as matched, '@' kept.
parseQuotedUserKeepAt(quotedUserInfo, quotedContent) ==
  LET open == IndexOf(quotedUserInfo, <<"(">>)
  IN IF open = -1
     THEN [name |-> quotedUserInfo, screen_name |-> NoText,
           text |-> quotedContent]
     ELSE [name |-> Trim(SubSeq(quotedUserInfo, 1, open)),
           screen_name |->
             Trim(SubSeq(quotedUserInfo, open + 2, Len(quotedUserInfo) - 1)),
           text |-> quotedContent]

\* quotedUserInfo.match(/(.*?)\s*\((.*?)\)/) and what is built from it;
\* quotedUserInfo ends with its only ")".
parseQuotedUser(quotedUserInfo, quotedContent) ==
  LET open == IndexOf(quotedUserInfo, <<"(">>)
  IN IF open = -1
     THEN [name |-> quotedUserInfo, screen_name |-> NoText,
           text |-> quotedContent]
     ELSE [name |-> Trim(SubSeq(quotedUserInfo, 1, open)),
           screen_name |->
             ReplaceFirst(
               Trim(SubSeq(quotedUserInfo, open + 2, Len(quotedUserInfo) - 1)),
               "@"),
           text |-> quotedContent]

\* convertTreeFormat(item): g is the id to generate, t the clock,
\* hasDocument whether decodeHtmlEntities finds a document (a number then
\* becomes its text; without one, text.replace throws).
convertTreeFormat(payload, g, t, hasDocument) ==
  LET item == payload.item
      isNumber == ~payload.titleIsText /\ item.title # NoText
      includesThrows == /\ isNumber
                        /\ item.source \notin {"X", "Twitter"}
                        /\ item.twitterId
      decodeThrows == isNumber /\ ~hasDocument
      isTwitterOrX == \/ item.source = "X"
                      \/ item.source = "Twitter"
                      \/ (item.twitterId /\ Includes(item.title, <<"@">>))
      decoded == decodeHtmlEntities(item.title)
      title == IF isTwitterOrX /\ decoded # NoText
               THEN cleanupTweetContent(decoded) ELSE decoded
      newsItem ==
        [item EXCEPT
           !._id = IF item._id = 0 THEN g ELSE item._id,
           !.title = title,
           !.body = decodeHtmlEntities(item.body),
           !.source = IF isTwitterOrX THEN "X"
                      ELSE IF item.source = "" THEN "News" ELSE item.source,
           !.time = IF item.time = 0 THEN t ELSE item.time]
  IN IF payload.kind # "object" \/ includesThrows \/ decodeThrows
     THEN placeholder("tree", t)
     ELSE newsItem

\* convertPhoenixFormat(item), with the same parameters.
convertPhoenixFormat(payload, g, t, hasDocument) ==
  LET item == payload.item
      isTwitterOrX == \/ item.source = "X"
                      \/ item.source = "Twitter"
                      \/ (item.twitterId /\ payload.username # NoText)
      body == item.body
      useBody == isTwitterOrX /\ body # NoText
      quoteIndex == IndexOf(body, quoteMarker)
      mainContent == Trim(SubSeq(body, 1, quoteIndex))
      quoteContent == SubSeq(body, quoteIndex + Len(quoteMarker) + 1, Len(body))
      usernameEndIndex == IndexOf(quoteContent, <<")">>)
      quotedUserInfo == SubSeq(quoteContent, 1, usernameEndIndex + 1)
      quotedContent ==
        Trim(SubSeq(quoteContent, usernameEndIndex + 2, Len(quoteContent)))
      parsed == useBody /\ quoteIndex # -1 /\ usernameEndIndex # -1
      quotedUser == IF parsed
                    THEN parseQuotedUser(quotedUserInfo, quotedContent)
                    ELSE NoQuotedUser
      rawTitle == IF ~useBody THEN item.title
                  ELSE IF parsed THEN mainContent ELSE body
      decodeThrows == /\ ~payload.titleIsText /\ ~useBody
                      /\ item.title # NoText /\ ~hasDocument
      decoded == decodeHtmlEntities(rawTitle)
      newsItem ==
        [item EXCEPT
           !._id = IF item._id = 0 THEN g ELSE item._id,
           !.title = IF isTwitterOrX THEN cleanupTweetContent(decoded)
                     ELSE decoded,
           !.body = IF useBody THEN NoText ELSE decodeHtmlEntities(body),
           !.source = IF isTwitterOrX THEN "X"
                      ELSE IF item.source = "" THEN "Unknown" ELSE item.source,
           !.time = IF item.time = 0 THEN t ELSE item.time,
           !.twitterId = isTwitterOrX /\ item.twitterId,
           !.isHighlighted = FALSE,
           !.quotedUser = IF isTwitterOrX /\ payload.isQuote
                          THEN quotedUser ELSE NoQuotedUser]
  IN IF payload.kind # "object" \/ decodeThrows
     THEN placeholder("phoenix", t)
     ELSE newsItem

NoFrame == [src |-> "none", frame |-> [kind |-> "none", payload |-> NullPayload],
            at |-> 0, hasDocument |-> FALSE]

\* handleMessage(event) of the actor of source src.
HandleMessage(src) ==
  \E frame \in Frames, t \in Clock :
    LET g == FrameGenBase + budget
        hasDocument == lastFrame.hasDocument
        data == IF frame.kind = "array" /\ src = "tree"
                THEN EmptyObject ELSE frame.payload
        newsItem == IF src = "phoenix"
                    THEN convertPhoenixFormat(data, g, t, hasDocument)
                    ELSE convertTreeFormat(data, g, t, hasDocument)
    IN /\ budget > 0
       /\ budget' = budget - 1
       /\ Len(notifRequests) < MaxRequests
       /\ lastFrame' = [src |-> src, frame |-> frame, at |-> t,
                        hasDocument |-> hasDocument]
       /\ IF frame.kind \in {"pong", "unparsable"}
          THEN /\ lastOp' = [NoOp EXCEPT !.op = "handleMessage",
                                         !.outcome = "ignored"]
               /\ UNCHANGED <<news, genCount, notifRequests, evicted>>
          ELSE processNewsItem(newsItem)
       /\ UNCHANGED <<filterKeywords, showTwitterPosts, disableApiRequests,
                      storeError, isLoading, inflight>>
       /\ UNCHANGED <<notifVars, connVars, fetchVars, sinkVars>>

FrameIdle == lastFrame = NoFrame

AdapterNext ==
  \/ \E src \in Sources : HandleMessage(src)
  \/ ToggleTwitterPosts
  \/ AddFilterKeyword

StoreNext ==
  \/ ProcessNewsItem
  \/ AddNews
  \/ \E src \in Sources : FetchStart(src)
  \/ \E src \in Sources : FetchSucceed(src)
  \/ \E src \in Sources : FetchFail(src)
  \/ AddFilterKeyword
  \/ RemoveFilterKeyword
  \/ ToggleTwitterPosts
  \/ SetDisableApiRequests
  \/ ResetNews

\* ============================================== NotificationService
\* `${newsItem._id || ''}-${matchedKeyword}`
notificationId(idText, keyword) == idText \o <<"-">> \o keyword

NotifFrame ==
  UNCHANGED <<news, filterKeywords, showTwitterPosts, disableApiRequests,
              storeError, isLoading, inflight, genCount, notifRequests,
              evicted, lastOp, connVars, fetchVars, frameVars, sinkVars>>

\* An event from outside the service: the user, the operating system.
NotifTick ==
  /\ budget > 0
  /\ budget' = budget - 1

CallSlots == 1..MaxCalls

\* Event ids and keywords a notification request is made for.
NotifPairs == {<<(<<"1">>), (<<"b">>)>>,
               <<(<<"1">>), (<<"b", "-", "b">>)>>,
               <<(<<"1", "-", "b">>), (<<"b">>)>>}

NoCall == [pc |-> "idle", id |-> <<>>, keyword |-> <<>>, t |-> 0, owner |-> FALSE]

TickMs == NOTIFICATION_DEDUPE_WINDOW \div TicksPerWindow

\* Continuation of a scheduleNotification call once initialize() has
\* returned: the second isInitialized check, then await getPermissionStatus().
AfterInitialize(c, initialized, rejected) ==
  IF c.pc # "initWait" THEN c
  ELSE IF rejected /\ ~c.owner THEN [c EXCEPT !.pc = "failed"]
  ELSE IF ~initialized THEN [c EXCEPT !.pc = "skippedInit"]
  ELSE [c EXCEPT !.pc = "permWait"]

SkippedByInit(initialized, rejected) ==
  Cardinality({s \in CallSlots :
                 /\ calls[s].pc = "initWait"
                 /\ AfterInitialize(calls[s], initialized, rejected).pc = "skippedInit"})

\* scheduleNotification up to its first await.
ScheduleNotification(s, idText, keyword) ==
  /\ NotifFrame
  /\ UNCHANGED budget
  /\ calls[s].pc = "idle"
  /\ \A r \in CallSlots : r < s => calls[r].pc # "idle"
  /\ LET c == [NoCall EXCEPT !.id = idText, !.keyword = keyword, !.t = now]
     IN IF isInitialized
        THEN /\ calls' = [calls EXCEPT ![s] = [c EXCEPT !.pc = "permWait"]]
             /\ UNCHANGED initializationPromise
        ELSE IF initializationPromise = "none"
        THEN /\ calls' = [calls EXCEPT ![s] = [c EXCEPT !.pc = "initWait",
                                                        !.owner = TRUE]]
             /\ initializationPromise' = "pending"
        ELSE IF initializationPromise = "pending"
        THEN /\ calls' = [calls EXCEPT ![s] = [c EXCEPT !.pc = "initWait"]]
             /\ UNCHANGED initializationPromise
        ELSE \* the settled promise is returned: isInitialized is still false
             /\ calls' = [calls EXCEPT ![s] = [c EXCEPT !.pc = "skippedInit"]]
             /\ UNCHANGED initializationPromise
  /\ skipped' = IF ~isInitialized /\ initializationPromise = "settled"
                THEN skipped + 1 ELSE skipped
  /\ UNCHANGED <<isInitialized, permission, monitoring, recentNotifications,
                 expiryTimers, now>>

\* initialize() called by the application (RootLayout, handleAppStateChange).
Initialize ==
  /\ NotifFrame
  /\ UNCHANGED budget
  /\ ~isInitialized
  /\ initializationPromise = "none"
  /\ initializationPromise' = "pending"
  /\ UNCHANGED <<isInitialized, permission, monitoring, recentNotifications,
                 expiryTimers, now, calls, skipped>>

\* _doInitialize settles, and the callers awaiting it continue.
DoInitialize(outcome) ==
  /\ NotifFrame
  /\ UNCHANGED budget
  /\ initializationPromise = "pending"
  /\ permission = "granted" => outcome # "denied"
  /\ IF outcome = "granted"
     THEN /\ permission' = "granted"
          /\ recentNotifications' = {}
          /\ isInitialized' = TRUE
          /\ monitoring' = TRUE
          /\ initializationPromise' = "settled"
     ELSE /\ UNCHANGED <<permission, recentNotifications, isInitialized, monitoring>>
          /\ initializationPromise' = IF outcome = "throw" THEN "none" ELSE "settled"
  /\ calls' = [s \in CallSlots |->
                 AfterInitialize(calls[s], outcome = "granted", outcome = "throw")]
  /\ skipped' = skipped + SkippedByInit(outcome = "granted", outcome = "throw")
  /\ UNCHANGED <<expiryTimers, now>>

\* scheduleNotification after await getPermissionStatus(): the permission
\* check, the deduplication and the dispatch to the sink.
PermissionStatus(s) ==
  /\ NotifFrame
  /\ UNCHANGED budget
  /\ calls[s].pc = "permWait"
  /\ LET nid == notificationId(calls[s].id, calls[s].keyword)
     IN IF permission # "granted"
        THEN /\ calls' = [calls EXCEPT ![s].pc = "skippedPerm"]
             /\ skipped' = skipped + 1
             /\ UNCHANGED <<recentNotifications, expiryTimers>>
        ELSE IF nid \in recentNotifications
        THEN /\ calls' = [calls EXCEPT ![s].pc = "skippedDup"]
             /\ skipped' = skipped + 1
             /\ UNCHANGED <<recentNotifications, expiryTimers>>
        ELSE /\ calls' = [calls EXCEPT ![s].pc = "sent"]
             /\ recentNotifications' = recentNotifications \cup {nid}
             /\ expiryTimers' = expiryTimers \cup
                  {[id |-> nid, due |-> now + NOTIFICATION_DEDUPE_WINDOW]}
             /\ UNCHANGED skipped
  /\ UNCHANGED <<isInitialized, initializationPromise, permission, monitoring, now>>

\* The setTimeout callback of scheduleNotification.
ExpiryTimer ==
  \E tm \in expiryTimers :
    /\ NotifFrame
    /\ UNCHANGED budget
    /\ tm.due <= now
    /\ recentNotifications' = recentNotifications \ {tm.id}
    /\ expiryTimers' = expiryTimers \ {tm}
    /\ UNCHANGED <<isInitialized, initializationPromise, permission, monitoring,
                   now, calls, skipped>>

\* Time passes; a timer that is due runs before time passes further.
AdvanceClock ==
  /\ NotifFrame
  /\ UNCHANGED budget
  /\ now < MaxTicks * TickMs
  /\ \A tm \in expiryTimers : tm.due > now
  /\ now' = now + TickMs
  /\ UNCHANGED <<isInitialized, initializationPromise, permission, monitoring,
                 recentNotifications, expiryTimers, calls, skipped>>

\* The AppState 'change' listener of the notification service.
NotifAppStateChange(nextAppState) ==
  /\ NotifFrame
  /\ NotifTick
  /\ recentNotifications' = IF nextAppState \in {"background", "inactive"}
                            THEN {} ELSE recentNotifications
  /\ UNCHANGED <<isInitialized, initializationPromise, permission, monitoring,
                 expiryTimers, now, calls, skipped>>

\* The user grants or revokes the permission in the system settings.
PermissionChange ==
  /\ NotifFrame
  /\ NotifTick
  /\ permission' = IF permission = "granted" THEN "denied" ELSE "granted"
  /\ UNCHANGED <<isInitialized, initializationPromise, monitoring,
                 recentNotifications, expiryTimers, now, calls, skipped>>

\* The setInterval callback of startPermissionMonitoring.
PermissionMonitor ==
  /\ NotifFrame
  /\ UNCHANGED budget
  /\ monitoring
  /\ permission # "granted" /\ isInitialized
  /\ isInitialized' = FALSE
  /\ initializationPromise' = IF initializationPromise = "none"
                              THEN "pending" ELSE initializationPromise
  /\ UNCHANGED <<permission, monitoring, recentNotifications, expiryTimers,
                 now, calls, skipped>>

\* notificationService.cleanup() on application teardown.
NotifCleanup ==
  /\ NotifFrame
  /\ NotifTick
  /\ monitoring \/ recentNotifications # {}
  /\ monitoring' = FALSE
  /\ recentNotifications' = {}
  /\ UNCHANGED <<isInitialized, initializationPromise, permission,
                 expiryTimers, now, calls, skipped>>

NotifIdle ==
  /\ isInitialized = FALSE
  /\ initializationPromise = "none"
  /\ permission = "granted"
  /\ monitoring = FALSE
  /\ recentNotifications = {}
  /\ expiryTimers = {}
  /\ now = 0
  /\ calls = [s \in CallSlots |-> NoCall]
  /\ skipped = 0

NotifNext ==
  \/ \E s \in CallSlots, p \in NotifPairs : ScheduleNotification(s, p[1], p[2])
  \/ Initialize
  \/ \E outcome \in {"granted", "denied", "throw"} : DoInitialize(outcome)
  \/ \E s \in CallSlots : PermissionStatus(s)
  \/ ExpiryTimer
  \/ AdvanceClock
  \/ \E nextAppState \in {"active", "background", "inactive"} :
       NotifAppStateChange(nextAppState)
  \/ PermissionChange
  \/ PermissionMonitor
  \/ NotifCleanup

\* ------------------------------------------- showMobileNotification
SinkSlots == 1..MaxRequests

NoSink == [pc |-> "idle", retryCount |-> 0, sinkCalls |-> 0, delays |-> <<>>,
           waited |-> 0]

SinkIdle == sink = [s \in SinkSlots |-> NoSink]

SinkFrame == UNCHANGED <<storeVars, notifVars, connVars, fetchVars, frameVars>>

\* The same delay before every retry.
sinkDelayFlat(retryCount) == SinkBaseDelay

\* Math.pow(2, retryCount) * 1000
sinkDelay(retryCount) == 2 ^ retryCount * SinkBaseDelay

\* scheduleNotification for request s reaches showMobileNotification(title,
\* body, newsItem): the first scheduleNotificationAsync call.
ShowMobileNotification(s) ==
  /\ s \in DOMAIN notifRequests
  /\ sink[s].pc = "idle"
  /\ sink' = [sink EXCEPT ![s] = [NoSink EXCEPT !.pc = "calling",
                                                !.sinkCalls = 1]]
  /\ SinkFrame

\* scheduleNotificationAsync resolves.
SinkResolves(s) ==
  /\ sink[s].pc = "calling"
  /\ sink' = [sink EXCEPT ![s].pc = "succeeded"]
  /\ SinkFrame

\* scheduleNotificationAsync rejects: the catch block.
SinkRejects(s) ==
  /\ sink[s].pc = "calling"
  /\ sink' = IF sink[s].retryCount < SinkRetries
             THEN [sink EXCEPT
                     ![s].pc = "waiting",
                     ![s].delays = Append(@, sinkDelay(sink[s].retryCount)),
                     ![s].waited = 0]
             ELSE [sink EXCEPT ![s].pc = "gaveUp"]
  /\ SinkFrame

\* Time passes for a pending retry timer.
SinkElapse(s) ==
  /\ sink[s].pc = "waiting"
  /\ sink[s].waited < sink[s].delays[Len(sink[s].delays)]
  /\ sink' = [sink EXCEPT ![s].waited = @ + SinkElapseStep]
  /\ SinkFrame

\* The setTimeout callback: showMobileNotification(..., retryCount + 1).
SinkRetryTimer(s) ==
  /\ sink[s].pc = "waiting"
  /\ sink[s].waited >= sink[s].delays[Len(sink[s].delays)]
  /\ sink' = [sink EXCEPT ![s].pc = "calling",
                          ![s].retryCount = @ + 1,
                          ![s].sinkCalls = @ + 1]
  /\ SinkFrame

SinkStep(s) ==
  SinkResolves(s) \/ SinkRejects(s) \/ SinkElapse(s) \/ SinkRetryTimer(s)

SinkNext ==
  \/ AddNews
  \/ AddFilterKeyword
  \/ \E s \in SinkSlots : ShowMobileNotification(s)
  \/ \E s \in SinkSlots : SinkResolves(s)
  \/ \E s \in SinkSlots : SinkRejects(s)
  \/ \E s \in SinkSlots : SinkElapse(s)
  \/ \E s \in SinkSlots : SinkRetryTimer(s)

\* ================================== WebSocketService and backgroundService
\* One connection actor (the tree instance) and the tree half of
\* checkAndReconnectWebSockets.  A transport is a WebSocket object; the
\* actor's fields are read into a record, the handlers are functions on that
\* record, and every action writes the record back.

\* token is the token argument the transport's onopen handler has captured.
NoTransport == [readyState |-> "NONE", handlers |-> FALSE, guard |-> FALSE,
                closeListener |-> FALSE, fallback |-> FALSE,
                closePending |-> FALSE, token |-> ""]

\* No frame sent; otherwise the transport it was sent on and its token.
NoLoginFrame == [k |-> 0, token |-> ""]

TransportIds == 1..MaxTransports

\* The configured endpoint; new WebSocket(url) throws on a malformed one.
Urls == {"ws://tree", "not-a-url"}
ConstructorThrows(u) == u = "not-a-url"

\* RootLayout's validateWebSocketUrl(url): url.startsWith('ws://') ||
\* url.startsWith('wss://'), for the configured URLs.
validateWebSocketUrl(u) == u # "" /\ u \in {"ws://tree", "wss://tree"}

Min(a, b) == IF a <= b THEN a ELSE b

\* Delays are kept exactly, in units of 1/DelayUnit ms.
DelayUnit == GrowthDen ^ (maxReconnectAttempts - 1)

\* Math.min(1000 * Math.pow(1.5, reconnectAttempts - 1), 60000)
ReconnectDelay(n) ==
  Min(BaseReconnectDelay * GrowthNum ^ (n - 1)
        * GrowthDen ^ (maxReconnectAttempts - n),
      MaxReconnectDelay * DelayUnit)

World ==
  [socket |-> socket, transports |-> transports, staleGuards |-> staleGuards,
   reconnectTimeout |-> reconnectTimeout,
   reconnectTimers |-> reconnectTimers,
   heartbeatInterval |-> heartbeatInterval, url |-> url,
   authToken |-> authToken,
   isConnecting |-> isConnecting, reconnectAttempts |-> reconnectAttempts,
   wasConnectedBefore |-> wasConnectedBefore, isCleaned |-> isCleaned,
   isCleanDisconnect |-> isCleanDisconnect,
   isHandlingErrorOrClose |-> isHandlingErrorOrClose,
   deferredSignals |-> deferredSignals, treeConnected |-> treeConnected,
   error |-> storeError, isLoading |-> isLoading,
   bgReconnectAttempts |-> bgReconnectAttempts,
   lastDelay |-> lastDelay, prevDelay |-> prevDelay, scheduled |-> scheduled,
   lastFailure |-> lastFailure, disconnectDone |-> disconnectDone,
   opens |-> opens, loginFrame |-> NoLoginFrame,
   lastEvent |-> lastEvent]

\* A transport whose events no longer reach the actor is forgotten.
Forget(w) ==
  [w EXCEPT !.transports =
     [k \in TransportIds |->
        LET t == w.transports[k]
        IN IF /\ w.socket # k
              /\ ~t.handlers /\ ~t.closeListener /\ ~t.fallback /\ ~t.guard
           THEN NoTransport
           ELSE t]]

CommitActor(w0) ==
  LET w == Forget(w0)
  IN /\ socket' = w.socket
     /\ transports' = w.transports
     /\ staleGuards' = w.staleGuards
     /\ reconnectTimeout' = w.reconnectTimeout
     /\ reconnectTimers' = w.reconnectTimers
     /\ heartbeatInterval' = w.heartbeatInterval
     /\ url' = w.url
     /\ authToken' = w.authToken
     /\ isConnecting' = w.isConnecting
     /\ reconnectAttempts' = w.reconnectAttempts
     /\ wasConnectedBefore' = w.wasConnectedBefore
     /\ isCleaned' = w.isCleaned
     /\ isCleanDisconnect' = w.isCleanDisconnect
     /\ isHandlingErrorOrClose' = w.isHandlingErrorOrClose
     /\ deferredSignals' = w.deferredSignals
     /\ treeConnected' = w.treeConnected
     /\ storeError' = w.error
     /\ isLoading' = w.isLoading
     /\ bgReconnectAttempts' = w.bgReconnectAttempts
     /\ lastDelay' = w.lastDelay
     /\ prevDelay' = w.prevDelay
     /\ scheduled' = w.scheduled
     /\ lastFailure' = w.lastFailure
     /\ disconnectDone' = w.disconnectDone
     /\ opens' = w.opens
     /\ loginFrame' = w.loginFrame
     /\ lastEvent' = w.lastEvent
     /\ UNCHANGED <<news, filterKeywords, showTwitterPosts, disableApiRequests,
                    inflight, genCount, notifRequests, evicted, lastOp,
                    notifVars, fetchVars, frameVars, sinkVars>>

\* The same, for a step that leaves the configuration alone.
Commit(w0) ==
  /\ CommitActor(w0)
  /\ UNCHANGED <<serverConfigUrl, serverConfigToken>>

\* What the last step was: for connect(), disconnect(), cleanup() and the
\* open and close events, the operation, the transport it concerned (0 for
\* none), the close code and the branch taken; for the reconnect timer the
\* branch its connect() call took; "other" for any other step.
NoEvent == [op |-> "none", k |-> 0, code |-> 0, outcome |-> "none"]

Event(w, op, k, outcome) ==
  [w EXCEPT !.lastEvent = [op |-> op, k |-> k, code |-> 0,
                           outcome |-> outcome]]

\* The branch connect(url, token) takes.
connectOutcome(w, u) ==
  IF w.isCleaned THEN "cleaned"
  ELSE IF w.isConnecting THEN "connecting"
  ELSE IF w.socket # 0 /\ w.transports[w.socket].readyState = "OPEN"
  THEN "connected"
  ELSE IF u = "not-a-url" THEN "throw"
  ELSE "attempt"

\* Close codes a transport reports: normal and abnormal closure.
CloseCodes == {1000, 1006}

closeReason(code) ==
  IF code = 1000 THEN "Normal closure" ELSE "Abnormal closure, connection lost"

isConnected(w) ==
  w.socket # 0 /\ w.transports[w.socket].readyState = "OPEN"

HasFreeSlot(w) ==
  \E k \in TransportIds : Forget(w).transports[k] = NoTransport /\ w.socket # k

FreeSlot(w) ==
  CHOOSE k \in TransportIds :
    /\ w.transports[k] = NoTransport /\ w.socket # k
    /\ \A j \in TransportIds :
         (w.transports[j] = NoTransport /\ w.socket # j) => k <= j

\* A new run of consecutive failures starts.
NewRun(w) ==
  [w EXCEPT !.lastDelay = 0, !.prevDelay = 0, !.scheduled = 0,
            !.lastFailure = "none"]

scheduleReconnect(w) ==
  IF ~w.reconnectTimeout /\ w.url # ""
  THEN LET n == Min(w.reconnectAttempts + 1, maxReconnectAttempts)
       IN [w EXCEPT !.reconnectAttempts = n,
                    !.reconnectTimeout = TRUE,
                    !.reconnectTimers = @ + 1,
                    !.prevDelay = w.lastDelay,
                    !.lastDelay = ReconnectDelay(n),
                    !.scheduled = Min(w.scheduled + 1, PlateauFailures)]
  ELSE w

closeExistingSocket(w) ==
  IF w.socket = 0 THEN w
  ELSE LET k == w.socket
           t == w.transports[k]
       IN [w EXCEPT
             !.transports[k] =
                [t EXCEPT !.handlers = FALSE, !.guard = FALSE,
                          !.readyState = IF t.readyState \in {"CONNECTING", "OPEN"}
                                         THEN "CLOSING" ELSE @],
             !.staleGuards = IF t.guard THEN @ + 1 ELSE @,
             !.socket = 0]

\* connect(url, token); its connect-timeout guard is armed before the
\* transport is created, so a throwing constructor leaves it armed.
connect(w, u, token) ==
  IF w.isCleaned THEN [w EXCEPT !.disconnectDone = FALSE]
  ELSE IF w.isConnecting THEN [w EXCEPT !.disconnectDone = FALSE]
  ELSE IF w.socket # 0 /\ isConnected(w) THEN [w EXCEPT !.disconnectDone = FALSE]
  ELSE
    LET w1 == [w EXCEPT !.url = u, !.authToken = token,
                        !.isConnecting = TRUE, !.isLoading = TRUE,
                        !.error = "", !.disconnectDone = FALSE,
                        !.lastFailure = "none"]
        w2 == Forget(closeExistingSocket(w1))
    IN IF ConstructorThrows(u)
       THEN scheduleReconnect(
              [w2 EXCEPT !.staleGuards = @ + 1, !.isConnecting = FALSE,
                         !.error = "Failed to connect",
                         !.treeConnected = FALSE, !.isLoading = FALSE,
                         !.lastFailure = "throw"])
       ELSE LET k == FreeSlot(w2)
            IN [w2 EXCEPT !.socket = k,
                          !.transports[k] =
                             [NoTransport EXCEPT !.readyState = "CONNECTING",
                                                 !.handlers = TRUE,
                                                 !.guard = TRUE,
                                                 !.token = token]]

\* connect() can run within the bounds: it returns early, or a transport
\* slot and a guard slot are left for the attempt.
CanConnect(w, u) ==
  \/ w.isCleaned \/ w.isConnecting \/ isConnected(w)
  \/ /\ HasFreeSlot(closeExistingSocket(w))
     /\ closeExistingSocket(w).staleGuards < MaxStaleGuards

\* The body of the connectionTimeout callback.
connectionTimeout(w) ==
  IF w.isConnecting
  THEN scheduleReconnect(
         [w EXCEPT !.error = "Connection timeout", !.treeConnected = FALSE,
                   !.isConnecting = FALSE, !.lastFailure = "timeout"])
  ELSE w

\* fetchLatestNews() called on every open.
handleOpenAlwaysFetching(w) ==
  [NewRun(w) EXCEPT !.isConnecting = FALSE, !.reconnectAttempts = 0,
                    !.treeConnected = TRUE, !.isLoading = FALSE, !.error = "",
                    !.heartbeatInterval = TRUE, !.wasConnectedBefore = TRUE,
                    !.lastEvent.outcome = "backfill"]

\* handleOpen; the outcome tells whether it called fetchLatestNews().
handleOpen(w) ==
  [NewRun(w) EXCEPT !.isConnecting = FALSE, !.reconnectAttempts = 0,
                    !.treeConnected = TRUE, !.isLoading = FALSE, !.error = "",
                    !.heartbeatInterval = TRUE, !.wasConnectedBefore = TRUE,
                    !.lastEvent.outcome = IF w.wasConnectedBefore
                                          THEN "backfill" ELSE "no-backfill"]

\* sendLoginMessage(token): this.socket.send('login ' + token) if the actor
\* holds an open transport.
sendLoginMessage(w, token) ==
  IF ~isConnected(w) THEN w
  ELSE [w EXCEPT !.loginFrame = [k |-> w.socket, token |-> token]]

\* handleError whose finally block does not clear the flag.
handleErrorKeepingFlag(w) ==
  IF w.isCleaned THEN w
  ELSE IF w.isHandlingErrorOrClose
  THEN [w EXCEPT !.deferredSignals = @ + 1]
  ELSE scheduleReconnect(
         [w EXCEPT !.isHandlingErrorOrClose = TRUE,
                   !.error = "WebSocket error", !.treeConnected = FALSE,
                   !.isConnecting = FALSE, !.lastFailure = "error"])

\* handleError runs to completion: the flag is set on entry and cleared in
\* the finally block; a call that finds it set only arms the 100 ms retry.
handleError(w) ==
  IF w.isCleaned THEN w
  ELSE IF w.isHandlingErrorOrClose
  THEN [w EXCEPT !.deferredSignals = @ + 1]
  ELSE [scheduleReconnect(
          [w EXCEPT !.isHandlingErrorOrClose = TRUE,
                    !.error = "WebSocket error", !.treeConnected = FALSE,
                    !.isConnecting = FALSE, !.lastFailure = "error"])
        EXCEPT !.isHandlingErrorOrClose = FALSE]

\* handleClose without the clean-disconnect test (lines 1088 and 1099).
handleCloseIgnoringCleanFlag(w, code) ==
  IF w.isCleaned THEN w
  ELSE IF w.isHandlingErrorOrClose
  THEN [w EXCEPT !.deferredSignals = @ + 1]
  ELSE [scheduleReconnect(
          [w EXCEPT !.error = "Connection closed: " \o closeReason(code),
                    !.treeConnected = FALSE, !.socket = 0,
                    !.isConnecting = FALSE, !.lastFailure = "close"])
        EXCEPT !.isCleanDisconnect = FALSE, !.isLoading = FALSE]

handleClose(w, code) ==
  IF w.isCleaned THEN w
  ELSE IF w.isHandlingErrorOrClose
  THEN [w EXCEPT !.deferredSignals = @ + 1]
  ELSE LET w1 == [w EXCEPT !.isHandlingErrorOrClose = TRUE,
                           !.error = IF w.isCleanDisconnect THEN @
                                     ELSE "Connection closed: "
                                            \o closeReason(code),
                           !.treeConnected = FALSE,
                           !.socket = 0]
           w2 == IF w.isCleanDisconnect THEN w1
                 ELSE scheduleReconnect([w1 EXCEPT !.isConnecting = FALSE,
                                                   !.lastFailure = "close"])
       IN [w2 EXCEPT !.isCleanDisconnect = FALSE, !.isLoading = FALSE,
                     !.isHandlingErrorOrClose = FALSE]

\* sendPing; sendFails is socket.send('ping') throwing.
sendPing(w, sendFails) ==
  IF ~isConnected(w) \/ ~sendFails THEN w
  ELSE handleClose([w EXCEPT !.transports[w.socket].readyState = "CLOSING"],
                   1006)

resetReconnectAttempts(w) ==
  [w EXCEPT !.reconnectAttempts = 0, !.reconnectTimeout = FALSE,
            !.reconnectTimers = IF w.reconnectTimeout THEN @ - 1 ELSE @]

disconnect(w) ==
  IF w.isCleaned THEN w
  ELSE LET w1 == [NewRun(w) EXCEPT !.heartbeatInterval = FALSE,
                                   !.reconnectTimeout = FALSE,
                                   !.reconnectTimers =
                                      IF w.reconnectTimeout THEN @ - 1 ELSE @]
       IN IF w1.socket = 0 THEN [w1 EXCEPT !.disconnectDone = TRUE]
          ELSE LET k == w1.socket
                   w2 == [w1 EXCEPT !.isCleanDisconnect = TRUE,
                                    !.reconnectAttempts = 0]
               IN IF w2.transports[k].readyState \notin {"CLOSING", "CLOSED"}
                  THEN [w2 EXCEPT !.transports[k].fallback = TRUE,
                                  !.transports[k].closeListener = TRUE,
                                  !.transports[k].readyState = "CLOSING",
                                  !.disconnectDone = FALSE]
                  ELSE [w2 EXCEPT !.socket = 0, !.disconnectDone = TRUE]

cleanup(w) ==
  LET w1 == [NewRun(w) EXCEPT !.isCleaned = TRUE, !.heartbeatInterval = FALSE,
                              !.reconnectTimeout = FALSE,
                              !.reconnectTimers =
                                 IF w.reconnectTimeout THEN @ - 1 ELSE @,
                              !.bgReconnectAttempts = 0]
      w2 == disconnect(w1)
  IN [w2 EXCEPT !.url = "", !.authToken = "", !.reconnectAttempts = 0,
                !.opens = 0,
                !.isConnecting = FALSE,
                !.wasConnectedBefore = FALSE]

ConnTick ==
  /\ budget > 0
  /\ budget' = budget - 1

\* ---- calls made by the application
Connect ==
  /\ ConnTick
  /\ CanConnect(World, serverConfigUrl)
  /\ Commit(Event(connect(World, serverConfigUrl, serverConfigToken), "connect", 0,
                  connectOutcome(World, serverConfigUrl)))
  /\ UNCHANGED bgTimers

Disconnect ==
  /\ ConnTick
  /\ Commit(Event(disconnect(World), "disconnect", socket,
                  IF isCleaned THEN "cleaned"
                  ELSE IF socket = 0 THEN "no-socket"
                  ELSE IF transports[socket].readyState \in {"CLOSING", "CLOSED"}
                  THEN "already-closing"
                  ELSE "closing"))
  /\ UNCHANGED bgTimers

Cleanup ==
  /\ ConnTick
  /\ Commit(Event(cleanup(World), "cleanup", socket,
                  IF isCleaned THEN "cleaned" ELSE "first"))
  /\ UNCHANGED bgTimers

\* The URLs and tokens a user saves in the settings ("" is no token).
ConfigUrls == {"ws://tree", "wss://tree"}

ConfigTokens == {"t1", "t2", ""}

\* PhoenixSettings.handleSave with a changed URL or token: the store update,
\* disconnect(), connect() if a token is set; then, where the news list is
\* mounted, the effect of NewsList for the changed configuration: cleanup()
\* and connectToWebSockets().
HandleSave(newUrl, newToken, mounted) ==
  LET w1 == disconnect([World EXCEPT !.error = ""])
      w2 == IF newToken # "" THEN connect(w1, newUrl, newToken) ELSE w1
      w3 == IF mounted THEN connect(cleanup(w2), newUrl, newToken) ELSE w2
  IN /\ ConnTick
     /\ validateWebSocketUrl(newUrl)
     /\ <<newUrl, newToken>> # <<serverConfigUrl, serverConfigToken>>
     /\ newToken # "" => CanConnect(w1, newUrl)
     /\ mounted => CanConnect(cleanup(w2), newUrl)
     /\ serverConfigUrl' = newUrl
     /\ serverConfigToken' = newToken
     /\ CommitActor(Event(w3, "configChange", 0,
                          IF mounted THEN "mounted" ELSE "unmounted"))
     /\ UNCHANGED bgTimers

\* handleAppStateChange
ConnAppStateChange(nextAppState, sendFails) ==
  /\ ConnTick
  /\ ~isCleaned
  /\ LET w == Event(World, "other", 0, "none")
     IN IF nextAppState = "active"
        THEN IF ~isConnected(w) /\ w.url # ""
             THEN CanConnect(w, w.url) /\ Commit(connect(w, w.url, w.authToken))
             ELSE Commit(sendPing(w, sendFails))
        ELSE IF nextAppState = "background"
        THEN Commit(sendPing(w, sendFails))
        ELSE Commit(w)
  /\ UNCHANGED bgTimers

\* The setInterval callback of startHeartbeat.
Heartbeat(sendFails) ==
  /\ ConnTick
  /\ heartbeatInterval
  /\ Commit(Event(sendPing(World, sendFails), "other", 0, "none"))
  /\ UNCHANGED bgTimers

\* ---- timers of the actor
\* The setTimeout callback of scheduleReconnect: connect, then the handle
\* is cleared.
\* The callback without its last statement, this.reconnectTimeout = null.
ReconnectTimerKeepingHandle ==
  /\ reconnectTimers > 0
  /\ CanConnect(World, url)
  /\ Commit(Event([connect(World, url, authToken)
                     EXCEPT !.reconnectTimers = @ - 1],
                  "reconnect", 0, connectOutcome(World, url)))
  /\ UNCHANGED <<bgTimers, budget>>

ReconnectTimer ==
  /\ reconnectTimers > 0
  /\ CanConnect(World, url)
  /\ Commit(Event([connect(World, url, authToken)
                     EXCEPT !.reconnectTimeout = FALSE,
                            !.reconnectTimers = @ - 1],
                  "reconnect", 0, connectOutcome(World, url)))
  /\ UNCHANGED <<bgTimers, budget>>

\* The connect-timeout guard of transport g, or (g = 0) one whose transport
\* was never created or has lost its handlers.
ConnectTimeout(g) ==
  /\ IF g = 0 THEN staleGuards > 0 ELSE transports[g].guard
  /\ LET w == IF g = 0
              THEN [World EXCEPT !.staleGuards = @ - 1]
              ELSE [World EXCEPT !.transports[g].guard = FALSE]
     IN Commit(Event(connectionTimeout(w), "other", 0, "none"))
  /\ UNCHANGED <<bgTimers, budget>>

\* The 1000 ms timer of disconnect().
DisconnectFallback(k) ==
  /\ transports[k].fallback
  /\ Commit(Event([World EXCEPT !.transports[k].fallback = FALSE,
                                !.socket = 0,
                                !.treeConnected = FALSE,
                                !.disconnectDone = TRUE],
                  "other", 0, "none"))
  /\ UNCHANGED <<bgTimers, budget>>

\* ---- events of a transport
\* The onopen handler of connect(): handleOpen(), then the login frame.
TransportOpen(k) ==
  /\ transports[k].readyState = "CONNECTING"
  /\ LET w == Event([World EXCEPT !.transports[k].readyState = "OPEN"],
                     "open", k,
                     IF transports[k].handlers THEN "handled" ELSE "unhandled")
     IN IF transports[k].handlers
        THEN LET w1 == handleOpen([w EXCEPT !.transports[k].guard = FALSE])
                 w2 == IF transports[k].token # ""
                       THEN sendLoginMessage(w1, transports[k].token)
                       ELSE w1
             IN Commit([w2 EXCEPT !.opens = 1])
        ELSE Commit(w)
  /\ UNCHANGED <<bgTimers, budget>>

\* The transport fails: its error event (the close event follows).
ErrorEvent(k) ==
  /\ transports[k].readyState \in {"CONNECTING", "OPEN", "CLOSING"}
  /\ ~transports[k].closePending
  /\ LET w == Event([World EXCEPT !.transports[k].readyState = "CLOSED",
                                  !.transports[k].closePending = TRUE],
                     "other", 0, "none")
     IN IF transports[k].handlers
        THEN Commit(handleError([w EXCEPT !.transports[k].guard = FALSE]))
        ELSE Commit(w)
  /\ UNCHANGED <<bgTimers, budget>>

\* The close event: the onclose handler of connect(), then the one-time
\* listener of disconnect().
CloseEvent(k, code) ==
  /\ \/ transports[k].closePending
     \/ transports[k].readyState \in {"CONNECTING", "OPEN", "CLOSING"}
  /\ LET t == transports[k]
         w0 == [World EXCEPT !.transports[k] =
                  [t EXCEPT !.readyState = "CLOSED", !.closePending = FALSE,
                            !.handlers = FALSE, !.closeListener = FALSE,
                            !.guard = IF t.handlers THEN FALSE ELSE @,
                            !.fallback = IF t.closeListener THEN FALSE ELSE @]]
         w1 == IF t.handlers THEN handleClose(w0, code) ELSE w0
         w2 == IF t.closeListener
               THEN [w1 EXCEPT !.socket = 0, !.disconnectDone = TRUE]
               ELSE w1
         outcome == IF ~t.handlers THEN "unhandled"
                    ELSE IF isCleaned THEN "ignored"
                    ELSE IF ~isCleanDisconnect THEN "unclean"
                    ELSE IF treeConnected /\ socket = k THEN "clean"
                    ELSE "clean-not-connected"
     IN Commit([Event(w2, "close", k, outcome) EXCEPT !.lastEvent.code = code])
  /\ UNCHANGED <<bgTimers, budget>>

\* ---- backgroundService
\* checkAndReconnectWebSockets, tree half.
BackgroundTick ==
  /\ ConnTick
  /\ bgTimers < MaxBgTimers
  /\ isConnected(World) \/ bgReconnectAttempts < MaxBgAttempts
  /\ LET w == Event(World, "other", 0, "none")
     IN IF ~isConnected(w)
        THEN IF bgReconnectAttempts < MAX_RECONNECT_ATTEMPTS
             THEN /\ Commit([w EXCEPT !.bgReconnectAttempts = @ + 1])
                  /\ bgTimers' = bgTimers + 1
             ELSE Commit(w) /\ UNCHANGED bgTimers
        ELSE Commit([w EXCEPT !.bgReconnectAttempts = 0]) /\ UNCHANGED bgTimers

\* The setTimeout callback of checkAndReconnectWebSockets.
BackgroundTimer ==
  /\ bgTimers > 0
  /\ CanConnect(resetReconnectAttempts(World), serverConfigUrl)
  /\ Commit(Event(connect(resetReconnectAttempts(World), serverConfigUrl,
                          serverConfigToken),
                  "other", 0, "none"))
  /\ bgTimers' = bgTimers - 1
  /\ UNCHANGED budget

ConnIdle ==
  /\ socket = 0
  /\ transports = [k \in TransportIds |-> NoTransport]
  /\ staleGuards = 0
  /\ reconnectTimeout = FALSE
  /\ reconnectTimers = 0
  /\ heartbeatInterval = FALSE
  /\ url = ""
  /\ authToken = ""
  /\ isConnecting = FALSE
  /\ reconnectAttempts = 0
  /\ wasConnectedBefore = FALSE
  /\ isCleaned = FALSE
  /\ isCleanDisconnect = FALSE
  /\ isHandlingErrorOrClose = FALSE
  /\ deferredSignals = 0
  /\ treeConnected = FALSE
  /\ bgReconnectAttempts = 0
  /\ bgTimers = 0
  /\ lastDelay = 0
  /\ prevDelay = 0
  /\ scheduled = 0
  /\ lastFailure = "none"
  /\ disconnectDone = FALSE
  /\ opens = 0
  /\ loginFrame = NoLoginFrame
  /\ lastEvent = NoEvent

\* ======================================================= fetchWithRetry
\* The statuses a backfill endpoint answers with.
HttpStatuses == {200, 401, 403, 500}

\* The messages fetch() rejects with.
RejectMessages == {"Network request failed", "Blocked by CORS policy"}

\* `HTTP error! Status: ${response.status}`
httpError(status) == "HTTP error! Status: " \o ToString(status)

\* Which of the texts the code searches for occur in a message.
Occurrences(message) ==
  CASE message = "Request timeout" -> {"timeout"}
    [] message = "Network request failed" -> {"Network request failed"}
    [] message = "Blocked by CORS policy" -> {"CORS"}
    [] OTHER -> {}

\* message.includes(text)
includes(message, text) == text \in Occurrences(message)

retryDelayFromZero(n) == Min(RetryBaseDelay * 2 ^ n, RetryMaxDelay)

\* Math.min(1000 * Math.pow(2, attempt - 1), 10000)
retryDelay(n) == Min(RetryBaseDelay * 2 ^ (n - 1), RetryMaxDelay)

ApiName(src) == IF src = "tree" THEN "Tree" ELSE "Phoenix"

\* The errorMessage the catch block of fetchTreeNews / fetchPhoenixNews
\* builds.
errorMessage(src, message) ==
  IF includes(message, "timeout")
  THEN ApiName(src) \o " API request timed out. Server may be unavailable."
  ELSE IF includes(message, "Network request failed")
  THEN "Network connection issue. Check your internet."
  ELSE IF includes(message, "CORS") \/ includes(message, "cross-origin")
  THEN "CORS error: " \o ApiName(src)
         \o " API not accessible from web browser. Try using the mobile app."
  ELSE ApiName(src) \o " API error: " \o message

FetchFrame ==
  UNCHANGED <<filterKeywords, showTwitterPosts, disableApiRequests, genCount,
              notifRequests, notifVars, connVars, frameVars, sinkVars>>

\* fetchTreeNews() / fetchPhoenixNews() up to the first fetch() of
\* fetchWithRetry.
FetchCall(src) ==
  /\ fetchPc \in {"idle", "thrown"}
  /\ budget > 0
  /\ budget' = budget - 1
  /\ inflight' = [inflight EXCEPT ![src] =
                    [busy |-> TRUE, news |-> news, filterKeywords |-> filterKeywords]]
  /\ isLoading' = TRUE
  /\ storeError' = IF src = "tree" THEN "" ELSE storeError
  /\ lastOp' = [NoOp EXCEPT !.op = "fetchStart"]
  /\ fetchPc' = "requesting"
  /\ fetchSrc' = src
  /\ attempt' = 0
  /\ fetchCalls' = 1
  /\ waited' = 0
  /\ delays' = <<>>
  /\ lastError' = ""
  /\ UNCHANGED <<news, evicted>>
  /\ FetchFrame

\* Time passes while the request is pending.
Elapse ==
  /\ fetchPc = "requesting"
  /\ waited < FetchTimeout
  /\ waited' = Min(waited + ElapseStep, FetchTimeout)
  /\ UNCHANGED <<news, evicted, inflight, isLoading, storeError, lastOp, budget,
                 fetchPc, fetchSrc, attempt, fetchCalls, delays, lastError>>
  /\ FetchFrame

\* The catch block of the loop, then, when the error leaves fetchWithRetry,
\* the catch block of the fetcher.
attemptFailed(message) ==
  IF \/ includes(message, "CORS") \/ includes(message, "cross-origin")
     \/ attempt >= FetchRetries
  THEN /\ fetchPc' = "thrown"
       /\ storeError' = errorMessage(fetchSrc, message)
       /\ isLoading' = FALSE
       /\ news' = IF fetchSrc = "tree" /\ Len(inflight[fetchSrc].news) = 0
                  THEN mockNews ELSE news
       /\ evicted' = {}
       /\ inflight' = [inflight EXCEPT ![fetchSrc] = Idle]
       /\ lastOp' = [NoOp EXCEPT !.op = "fetchFail"]
       /\ lastError' = message
       /\ UNCHANGED <<attempt, fetchCalls, waited, delays, fetchSrc, budget>>
  ELSE /\ fetchPc' = "waiting"
       /\ attempt' = attempt + 1
       /\ lastError' = message
       /\ UNCHANGED <<news, evicted, inflight, isLoading, storeError, lastOp,
                      budget, fetchSrc, fetchCalls, waited, delays>>

\* fetch() settles before the timeout: a response or a rejection.
Respond ==
  /\ fetchPc = "requesting"
  /\ waited < FetchTimeout
  /\ \/ \E status \in HttpStatuses :
          IF status = 200
          THEN /\ fetchPc' = "returned"
               /\ UNCHANGED <<news, evicted, inflight, isLoading, storeError,
                              lastOp, budget, fetchSrc, attempt, fetchCalls,
                              waited, delays, lastError>>
          ELSE attemptFailed(httpError(status))
     \/ \E message \in RejectMessages : attemptFailed(message)
  /\ FetchFrame

\* The setTimeout(timeout) of Promise.race rejects first.
RequestTimeout ==
  /\ fetchPc = "requesting"
  /\ waited = FetchTimeout
  /\ attemptFailed("Request timeout")
  /\ FetchFrame

\* The backoff delay has passed: the next fetch() is issued.
RetryDelayElapsed ==
  /\ fetchPc = "waiting"
  /\ fetchPc' = "requesting"
  /\ delays' = Append(delays, retryDelay(attempt))
  /\ fetchCalls' = fetchCalls + 1
  /\ waited' = 0
  /\ UNCHANGED <<news, evicted, inflight, isLoading, storeError, lastOp, budget,
                 fetchSrc, attempt, lastError>>
  /\ FetchFrame

\* The fetcher after fetchWithRetry returned: response.json() and the merge.
FetchReturned ==
  /\ fetchPc = "returned"
  /\ \E data \in Responses : setMergedNews(fetchSrc, data)
  /\ fetchPc' = "idle"
  /\ UNCHANGED <<budget, fetchSrc, attempt, fetchCalls, waited, delays,
                 lastError, notifVars, connVars, frameVars, sinkVars>>

FetchIdle ==
  /\ fetchPc = "idle"
  /\ fetchSrc = "tree"
  /\ attempt = 0
  /\ fetchCalls = 0
  /\ waited = 0
  /\ delays = <<>>
  /\ lastError = ""

FetchNext ==
  \/ \E src \in Sources : FetchCall(src)
  \/ Elapse
  \/ Respond
  \/ RequestTimeout
  \/ RetryDelayElapsed
  \/ FetchReturned

StoreFresh(initialNews) ==
  /\ news = initialNews
  /\ filterKeywords = <<>>
  /\ showTwitterPosts = TRUE
  /\ disableApiRequests = FALSE
  /\ storeError = ""
  /\ isLoading = FALSE
  /\ inflight = [src \in Sources |-> Idle]
  /\ genCount = 0
  /\ notifRequests = <<>>
  /\ evicted = {}
  /\ lastOp = NoOp

ConnNext ==
  \/ Connect
  \/ Disconnect
  \/ Cleanup
  \/ \E nextAppState \in {"active", "background", "inactive"},
        sendFails \in BOOLEAN : ConnAppStateChange(nextAppState, sendFails)
  \/ \E sendFails \in BOOLEAN : Heartbeat(sendFails)
  \/ ReconnectTimer
  \/ \E g \in 0..MaxTransports : ConnectTimeout(g)
  \/ \E k \in TransportIds : DisconnectFallback(k)
  \/ \E k \in TransportIds : TransportOpen(k)
  \/ \E k \in TransportIds : ErrorEvent(k)
  \/ \E k \in TransportIds, code \in CloseCodes : CloseEvent(k, code)
  \/ BackgroundTick
  \/ BackgroundTimer

\* The actor, the network and a user who changes the configuration.
ConfigNext ==
  \/ Connect
  \/ \E newUrl \in ConfigUrls, newToken \in ConfigTokens, mounted \in BOOLEAN :
       HandleSave(newUrl, newToken, mounted)
  \/ ReconnectTimer
  \/ \E k \in TransportIds : DisconnectFallback(k)
  \/ \E k \in TransportIds : TransportOpen(k)
  \/ \E k \in TransportIds : ErrorEvent(k)
  \/ \E k \in TransportIds, code \in CloseCodes : CloseEvent(k, code)

\* The actor alone with the network: one connect() call, then only the
\* transport's events and the actor's own timers.
BackoffNext ==
  \/ Connect
  \/ ReconnectTimer
  \/ \E g \in 0..MaxTransports : ConnectTimeout(g)
  \/ \E k \in TransportIds : TransportOpen(k)
  \/ \E k \in TransportIds : ErrorEvent(k)
  \/ \E k \in TransportIds, code \in CloseCodes : CloseEvent(k, code)

\* ======================================================= specifications
\* The store as the application starts it.
StoreInit ==
  /\ StoreFresh(mockNews)
  /\ NotifIdle
  /\ ConnIdle
  /\ FetchIdle
  /\ FrameIdle
  /\ SinkIdle
  /\ serverConfigUrl = "ws://tree"
  /\ serverConfigToken = "t1"
  /\ budget = MaxSteps

SpecStore == StoreInit /\ [][StoreNext]_vars

\* The store after FillerCount earlier inserts.
StoreFullInit ==
  /\ StoreFresh(FillerNews)
  /\ NotifIdle
  /\ ConnIdle
  /\ FetchIdle
  /\ FrameIdle
  /\ SinkIdle
  /\ serverConfigUrl = "ws://tree"
  /\ serverConfigToken = "t1"
  /\ budget = MaxFullSteps

SpecStoreFull == StoreFullInit /\ [][StoreNext]_vars

\* A store at the 100-event bound whose events are all recent (time 4 for
\* the first half, time 3 for the rest).
RecentNews ==
  [i \in 1..NewsLimit |->
     Item(200 + i, NoText, NoText, "", IF 2 * i <= NewsLimit THEN 4 ELSE 3,
          "News", FALSE, FALSE)]

StoreAtLimitInit ==
  /\ StoreFresh(RecentNews)
  /\ NotifIdle
  /\ ConnIdle
  /\ FetchIdle
  /\ FrameIdle
  /\ SinkIdle
  /\ serverConfigUrl = "ws://tree"
  /\ serverConfigToken = "t1"
  /\ budget = MaxFullSteps

SpecStoreAtLimit == StoreAtLimitInit /\ [][StoreNext]_vars

NotifInit ==
  /\ StoreFresh(mockNews)
  /\ NotifIdle
  /\ ConnIdle
  /\ FetchIdle
  /\ FrameIdle
  /\ SinkIdle
  /\ serverConfigUrl = "ws://tree"
  /\ serverConfigToken = "t1"
  /\ budget = MaxNotifEvents

SpecNotif == NotifInit /\ [][NotifNext]_vars

ConnInit ==
  /\ StoreFresh(mockNews)
  /\ NotifIdle
  /\ ConnIdle
  /\ FetchIdle
  /\ FrameIdle
  /\ SinkIdle
  /\ serverConfigUrl \in Urls
  /\ serverConfigToken = "t1"
  /\ budget = MaxConnSteps

SpecConn == ConnInit /\ [][ConnNext]_vars

BackoffInit ==
  /\ StoreFresh(mockNews)
  /\ NotifIdle
  /\ ConnIdle
  /\ FetchIdle
  /\ FrameIdle
  /\ SinkIdle
  /\ serverConfigUrl \in Urls
  /\ serverConfigToken = "t1"
  /\ budget = MaxBackoffCalls

SpecBackoff == BackoffInit /\ [][BackoffNext]_vars

ConfigInit ==
  /\ StoreFresh(mockNews)
  /\ NotifIdle
  /\ ConnIdle
  /\ FetchIdle
  /\ FrameIdle
  /\ SinkIdle
  /\ serverConfigUrl = "ws://tree"
  /\ serverConfigToken = "t1"
  /\ budget = MaxConfigSteps

SpecConfig == ConfigInit /\ [][ConfigNext]_vars

\* The backfill fetchers alone with the endpoint.  Timers fire and a pending
\* delay ends: the clock's steps are fair; the endpoint need not answer.
FetchInit ==
  /\ \E initialNews \in {<<>>, mockNews} : StoreFresh(initialNews)
  /\ NotifIdle
  /\ ConnIdle
  /\ FetchIdle
  /\ FrameIdle
  /\ SinkIdle
  /\ serverConfigUrl = "ws://tree"
  /\ serverConfigToken = "t1"
  /\ budget = MaxFetches

\* Frames reaching the actors of both sources, on a device (no document) or
\* in a browser.
AdapterInit ==
  /\ StoreFresh(<<>>)
  /\ NotifIdle
  /\ ConnIdle
  /\ FetchIdle
  /\ lastFrame \in {[NoFrame EXCEPT !.hasDocument = d] : d \in BOOLEAN}
  /\ SinkIdle
  /\ serverConfigUrl = "ws://tree"
  /\ serverConfigToken = "t1"
  /\ budget = MaxFrames

SpecAdapter == AdapterInit /\ [][AdapterNext]_vars

\* The store and the notification sink.  A sink call settles and a timer
\* fires: the steps of each request are fair.
SinkInit ==
  /\ StoreFresh(<<>>)
  /\ NotifIdle
  /\ ConnIdle
  /\ FetchIdle
  /\ FrameIdle
  /\ SinkIdle
  /\ serverConfigUrl = "ws://tree"
  /\ serverConfigToken = "t1"
  /\ budget = MaxSinkSteps

SpecSink ==
  /\ SinkInit
  /\ [][SinkNext]_vars
  /\ \A s \in SinkSlots : WF_vars(SinkStep(s))

SpecFetch ==
  /\ FetchInit
  /\ [][FetchNext]_vars
  /\ WF_vars(Elapse \/ RequestTimeout \/ RetryDelayElapsed)

\* ================================================================ claims
IsSortedDesc(list) ==
  \A i \in 1..(Len(list) - 1) : list[i].time >= list[i + 1].time

\* What the specification calls the same event: the same id, the same
\* non-empty url or the same non-empty title.
ClaimSame(a, b) ==
  \/ (a._id # 0 /\ a._id = b._id)
  \/ (a.url # "" /\ a.url = b.url)
  \/ (a.title # NoText /\ a.title = b.title)

ClaimKeywordOccurs(item, keywords) ==
  \E k \in Range(keywords) :
    \/ Includes(ToLowerCase(item.title), k)
    \/ Includes(ToLowerCase(item.body), k)

\* C1: after any sequence of addNews calls and backfill merges no two events
\* of the news list share an _id, a non-empty url or a non-empty title.
C1_NoDuplicates ==
  \A i, j \in DOMAIN news : i < j => ~ClaimSame(news[i], news[j])

C4_DuplicateIsNoOp ==
  [][ ( /\ lastOp'.op \in {"addNews", "processNewsItem"}
        /\ lastOp'.outcome # "skipped"
        /\ \E i \in DOMAIN news : ClaimSame(lastOp'.item, news[i]) )
      => (news' = news /\ notifRequests' = notifRequests) ]_vars

\* The scenario of C4: id 1 inserted into an empty store, then id 2 with the
\* same url: the store holds one event.
C4_Witness ==
  /\ lastOp.op = "addNews"
  /\ lastOp.item._id = 2
  /\ lastOp.outcome = "duplicate"
  /\ Len(news) = 1
  /\ news[1]._id = 1
  /\ news[1].url = lastOp.item.url

\* C5: an event that the message path inserts and whose title or body
\* contains a configured keyword causes exactly one scheduleNotification call.
C5_OneRequestPerMatch ==
  ( /\ lastOp.op = "processNewsItem"
    /\ lastOp.outcome = "inserted"
    /\ ClaimKeywordOccurs(lastOp.item, filterKeywords) )
  => lastOp.requests = 1

\* C6: two scheduleNotification calls for the same (event id, keyword) pair
\* made less than 60 s apart, both of which got past the initialization and
\* permission checks: exactly one reaches the sink, the other is skipped.
C6_OneDispatchPerWindow ==
  \A a, b \in CallSlots :
    ( /\ a < b
      /\ calls[a].id = calls[b].id /\ calls[a].keyword = calls[b].keyword
      /\ calls[a].pc \in {"sent", "skippedDup"}
      /\ calls[b].pc \in {"sent", "skippedDup"}
      /\ calls[b].t - calls[a].t < NOTIFICATION_DEDUPE_WINDOW )
    => ( /\ calls[a].pc # calls[b].pc
         /\ skipped >= 1 )

\* C7: within a run of consecutive failed reconnects the delay
\* scheduleReconnect arms is never smaller than the one it armed before, and
\* never above 60000 ms.
C7_DelaysNonDecreasing ==
  /\ prevDelay <= lastDelay
  /\ lastDelay <= MaxReconnectDelay * DelayUnit

\* C8: from the 12th consecutive failure on, the delay armed is 60000 ms.
C8_PlateauAtCap ==
  scheduled >= PlateauFailures => lastDelay = MaxReconnectDelay * DelayUnit

\* What will lead the actor to another connection attempt: its reconnect
\* timer, a transport whose events it still handles, a connect-timeout guard
\* of an attempt in progress, or a timer of the background service.
RetryPending ==
  \/ reconnectTimeout
  \/ bgTimers > 0
  \/ \E k \in TransportIds :
       /\ transports[k].handlers
       /\ \/ transports[k].readyState \in {"CONNECTING", "OPEN", "CLOSING"}
          \/ transports[k].closePending
  \/ isConnecting /\ (staleGuards > 0 \/ \E k \in TransportIds : transports[k].guard)

\* C9: after a failed connection attempt, with a URL configured and the actor
\* neither cleaned up nor disconnected, another attempt is on its way.
C9_FailureIsRetried ==
  (lastFailure # "none" /\ url # "" /\ ~isCleaned) => RetryPending

\* C10: once disconnect() has completed, and until connect() is called, the
\* actor holds no open or opening transport and no reconnect timer.
C10_QuietAfterDisconnect ==
  disconnectDone =>
    /\ ~reconnectTimeout
    /\ socket # 0 => transports[socket].readyState \notin {"CONNECTING", "OPEN"}

\* C11: when the transport of a connected actor closes with code 1000 while
\* isCleanDisconnect is set, the socket reference is cleared, connectivity
\* becomes false, no reconnect timer is armed, the attempt counter keeps its
\* value and the store's error is left as it was.
C11_CleanCloseIsQuiet ==
  [][(/\ lastEvent'.op = "close"
      /\ lastEvent'.code = 1000
      /\ lastEvent'.k = socket
      /\ treeConnected
      /\ isCleanDisconnect
      /\ ~isCleaned
      /\ transports[socket].handlers)
     => /\ socket' = 0
        /\ treeConnected' = FALSE
        /\ reconnectTimeout' => reconnectTimeout
        /\ reconnectAttempts' = reconnectAttempts
        /\ storeError' = storeError]_vars

C11_Witness ==
  /\ lastEvent.op = "close"
  /\ lastEvent.code = 1000
  /\ lastEvent.outcome = "clean"
  /\ socket = 0
  /\ ~treeConnected
  /\ ~reconnectTimeout

\* C12: once a disconnect() has completed (by the close event, by its 1 s
\* fallback, or because the transport was already closing or closed) the
\* clean-disconnect flag is false, so that it cannot suppress the handling
\* of a later connection's close.
C12_FlagClearedWhenDisconnectDone == disconnectDone => ~isCleanDisconnect

\* The transports that are opening or open.
LiveTransports ==
  {k \in TransportIds : transports[k].readyState \in {"CONNECTING", "OPEN"}}

\* C13: under every interleaving of connect, disconnect, foreground wake,
\* background ticks, reconnect timers and transport events, the actor has at
\* most one opening or open transport, and its socket reference designates
\* that transport.
C13_OneLiveTransport ==
  /\ Cardinality(LiveTransports) <= 1
  /\ \A k \in LiveTransports : socket = k

\* The actor is Connecting: its socket reference designates an opening
\* transport whose connect-timeout guard has not fired and which has
\* reported neither open, error nor close.
Connecting ==
  /\ socket # 0
  /\ transports[socket].readyState = "CONNECTING"
  /\ transports[socket].guard

\* The actor is Connected: its socket reference designates an open transport.
Connected == socket # 0 /\ transports[socket].readyState = "OPEN"

\* C14: connect() on an actor that is Connecting or Connected creates no
\* transport and leaves the transport, the url, the timers and the attempt
\* counter as they were.
C14_ConnectIsNoOpWhenBusy ==
  [][(lastEvent'.op = "connect" /\ ~isCleaned /\ (Connecting \/ Connected))
     => UNCHANGED <<socket, transports, staleGuards, url, reconnectTimeout,
                    heartbeatInterval, reconnectAttempts, isConnecting,
                    bgTimers>>]_vars

\* C15: once cleanup() has run, no transport callback and no timer changes
\* the actor's state or the store's connection status: every step of a
\* cleaned actor other than a call of connect(), disconnect() or cleanup()
\* leaves them as they were.
C15_CallbacksInertAfterCleanup ==
  [][(isCleaned /\ lastEvent'.op \notin {"connect", "disconnect", "cleanup"})
     => UNCHANGED <<isConnecting, reconnectAttempts, wasConnectedBefore,
                    heartbeatInterval, reconnectTimeout, url, treeConnected,
                    storeError, isLoading>>]_vars

\* C16: on an actor that is already cleaned, cleanup(), connect() and
\* disconnect() change nothing of the actor's state.
C16_CallsOnCleanedActorAreNoOps ==
  [][(isCleaned /\ lastEvent'.op \in {"connect", "disconnect", "cleanup"})
     => UNCHANGED <<socket, transports, staleGuards, url, isConnecting,
                    reconnectAttempts, wasConnectedBefore, heartbeatInterval,
                    reconnectTimeout, isCleaned, isCleanDisconnect,
                    treeConnected, storeError, isLoading>>]_vars

\* C17: when a backfill completes, every event that was in the store just
\* before (inserted by addNews or by the other source's backfill while the
\* request was in flight) is still in the store, unless the bound of 100
\* evicted it.
C17_MergeKeepsConcurrentInserts ==
  [][lastOp'.op = "merge"
     => \A i \in DOMAIN news :
          Exists(news', news[i]) \/ news[i] \in evicted']_vars

\* C18: when a backfill response is applied and the same source then
\* fetches again and applies the same response, with nothing else done to
\* the store in between, the second application leaves the store as the
\* first left it.
C18_SameResponseTwiceIsIdempotent ==
  [][(/\ lastOp.op = "fetchStart"
      /\ lastOp.data # <<>>
      /\ lastOp'.op = "merge"
      /\ lastOp'.src = lastOp.src
      /\ lastOp'.data = lastOp.data)
     => news' = news]_vars

\* The delays fetchWithRetry may have awaited so far.
ClaimRetryDelays == {<<>>, <<1000>>, <<1000, 2000>>}

\* C19: fetchWithRetry makes at most 3 attempts, none pending longer than
\* 15 s; it has waited 1000 ms before the second and 2000 ms before the
\* third; and it always ends, by returning a response or by throwing the
\* error of its last attempt.
C19_RetryBoundedAndTerminates ==
  /\ [](/\ fetchCalls <= 3
        /\ waited <= 15000
        /\ delays \in ClaimRetryDelays
        /\ fetchCalls > 0 => Len(delays) = fetchCalls - 1
        /\ fetchPc = "thrown" => lastError # "")
  /\ (fetchPc \in {"requesting", "waiting"})
       ~> (fetchPc \in {"returned", "thrown"})

C19_Witness ==
  /\ fetchPc = "thrown"
  /\ fetchCalls = 3
  /\ delays = <<1000, 2000>>
  /\ lastError = "Request timeout"

\* A cross-origin failure or an authentication rejection.
ClaimNotRetried ==
  {"Blocked by CORS policy", "HTTP error! Status: 401",
   "HTTP error! Status: 403"}

\* C20: a backfill request whose attempt fails with a cross-origin failure
\* or with HTTP 401 or 403 is not retried: that attempt ends the call, and
\* the failure is in the store's error state.
C20_AuthAndCorsFailuresNotRetried ==
  [][(/\ fetchPc = "requesting"
      /\ fetchPc' \in {"waiting", "thrown"}
      /\ lastError' \in ClaimNotRetried)
     => (fetchPc' = "thrown" /\ storeError' # "")]_vars

\* The keyword the specification asks for: the first one, in list order,
\* that occurs in the title or the body when case is ignored on both sides;
\* NoText when there is none.
ClaimFirstMatch(item, keywords) ==
  LET occurs(k) == \/ Includes(ToUpperCase(item.title), ToUpperCase(k))
                   \/ Includes(ToUpperCase(item.body), ToUpperCase(k))
  IN IF \A j \in DOMAIN keywords : ~occurs(keywords[j]) THEN NoText
     ELSE keywords[CHOOSE j \in DOMAIN keywords :
                     /\ occurs(keywords[j])
                     /\ \A h \in 1..(j - 1) : ~occurs(keywords[h])]

\* C21: for every event and the store's keyword list, checkForKeywordMatch
\* (and the fetchers' findMatchedKeyword) returns the first keyword in list
\* order that occurs, case ignored, in the title or the body, and no match
\* when none occurs or the list is empty.
C21_FirstKeywordInListOrder ==
  \A item \in NewsItems :
    /\ checkForKeywordMatch(item, filterKeywords)
         = ClaimFirstMatch(item, filterKeywords)
    /\ findMatchedKeyword(item, filterKeywords)
         = ClaimFirstMatch(item, filterKeywords)

C21_Witness ==
  /\ filterKeywords = << <<"b","t","c">>, <<"e","t","h">> >>
  /\ lastOp.op = "addNews"
  /\ lastOp.outcome = "inserted"
  /\ lastOp.item.title = <<"e","t","h">>
  /\ lastOp.item.body = <<"b","t","c">>
  /\ lastOp.keyword = <<"b","t","c">>

\* The content heuristics of the highlight rule.
ClaimHighlight(item, keywords) ==
  \/ ToUpperCase(item.title) = item.title
  \/ item.source = "Terminal"
  \/ item.major
  \/ ClaimFirstMatch(item, keywords) # NoText

\* C22: the highlighted flag of an event that addNews stores is true exactly
\* when the content heuristics hold (upper-case title, source Terminal, a
\* BTC or ETH tag, a keyword match), whatever highlight value the payload
\* carried.
C22_HighlightFromContentOnly ==
  [][(lastOp'.op \in {"addNews", "processNewsItem"}
        /\ lastOp'.outcome = "inserted")
     => \A i \in DOMAIN news' :
          news'[i] \notin Range(news)
            => (news'[i].isHighlighted
                  <=> ClaimHighlight(news'[i], filterKeywords))]_vars

\* The placeholder title as C23 states it.
ClaimPlaceholderTitle ==
  <<"E","r","r","o","r"," ","p","r","o","c","e","s","s","i","n","g"," ",
    "i","t","e","m">>

\* A frame whose payload is null or not an object was handled in this step.
MalformedFrameHandled ==
  /\ budget' < budget
  /\ lastOp'.op = "processNewsItem"
  /\ lastFrame'.frame.kind = "json"
  /\ lastFrame'.frame.payload.kind # "object"

\* C23: the adapters return an event for every payload; for a malformed
\* payload the event handed on is a placeholder with the title "Error
\* processing item", a synthetic id and the current timestamp, and the
\* actor's connection state is unchanged.
C23_MalformedGivesPlaceholder ==
  [][MalformedFrameHandled =>
       /\ lastOp'.item.title = ClaimPlaceholderTitle
       /\ lastOp'.item._id = errorId(lastFrame'.src, lastFrame'.at)
       /\ lastOp'.item.time = lastFrame'.at
       /\ connVars' = connVars]_vars


\* The last step handled a frame of the second source whose payload is a
\* repost with the body '<main> &gt;&gt;QUOTE <name> (@<handle>) <text>'.
RepostHandled(main, name, handle, text) ==
  /\ lastOp.op = "processNewsItem"
  /\ lastFrame.src = "phoenix"
  /\ lastFrame.frame.kind \in {"json", "array"}
  /\ lastFrame.frame.payload.kind = "object"
  /\ lastFrame.frame.payload.isQuote
  /\ lastFrame.frame.payload.item.body = QuoteBody(main, name, handle, text)

C25_NoAttemptOnInvalidUrl ==
  ~validateWebSocketUrl(serverConfigUrl) =>
    /\ url = ""
    /\ lastEvent.op = "connect" => lastEvent.outcome \notin {"attempt", "throw"}


\* C26: when the URL or the token of a source is changed at runtime, the old
\* transport is closed and a new connection attempt is made to the new URL
\* with the new token: once the change has been handled the actor holds the
\* new URL and the new token together, its transport is the new attempt, and
\* no other transport is open or connecting.
C26_ChangeStartsNewAttempt ==
  lastEvent.op = "configChange" =>
    /\ url = serverConfigUrl
    /\ authToken = serverConfigToken
    /\ socket # 0
    /\ transports[socket].readyState = "CONNECTING"
    /\ \A k \in TransportIds \ {socket} :
         transports[k].readyState \notin {"OPEN", "CONNECTING"}


ClaimSinkDelays == {<<>>, <<1000>>, <<1000, 2000>>}

\* C27: a failing notification-sink call is retried at most 2 times (at most
\* 3 sink calls per request), after 1 s and then 2 s; after the third failure
\* no further call is made; every request ends; and the store's insert never
\* waits for the dispatch or its retries: an insert changes nothing of a
\* dispatch and a dispatch step nothing of the store.
C27_SinkRetriesBounded ==
  /\ [](\A s \in SinkSlots :
          /\ sink[s].sinkCalls <= 3
          /\ sink[s].retryCount <= 2
          /\ sink[s].delays \in ClaimSinkDelays
          /\ sink[s].pc = "gaveUp" => sink[s].sinkCalls = 3)
  /\ [][\A s \in SinkSlots :
          /\ sink[s].pc \in {"gaveUp", "succeeded"} => sink'[s] = sink[s]
          /\ (sink[s].sinkCalls > 0 /\ sink'[s].sinkCalls > sink[s].sinkCalls)
               => /\ sink[s].delays # <<>>
                  /\ sink[s].waited >= sink[s].delays[Len(sink[s].delays)]]_vars
  /\ [][(news' # news => sink' = sink)
        /\ (sink' # sink => UNCHANGED storeVars)]_vars
  /\ \A s \in SinkSlots :
       (sink[s].pc \in {"calling", "waiting"})
         ~> (sink[s].pc \in {"succeeded", "gaveUp"})

\* A request gave up after three sink calls and the delays 1 s and 2 s; the
\* store took two events and made two requests meanwhile.
C27_Witness ==
  /\ sink[1].pc = "gaveUp"
  /\ sink[1].sinkCalls = 3
  /\ sink[1].delays = <<1000, 2000>>
  /\ Len(notifRequests) = 2
  /\ Len(news) = 2


\* In this step a ping was sent on the open transport of an actor in
\* service (not cleaned up, no user disconnect under way) and the send failed.
PingFailed ==
  /\ ~isCleaned
  /\ ~isCleanDisconnect
  /\ lastEvent'.op = "other"
  /\ socket # 0
  /\ transports[socket].readyState = "OPEN"
  /\ transports'[socket].readyState = "CLOSING"

\* Transport k was dropped after a failed ping and has not yet reported its
\* close.
DroppedByPing(k) ==
  /\ ~isCleaned
  /\ socket # k
  /\ transports[k].readyState = "CLOSING"
  /\ transports[k].handlers
  /\ ~transports[k].closeListener

\* C28: a failed heartbeat ping on a connected actor is treated at once as
\* an abnormal close: the transport is dropped, the connectivity status is
\* false and a reconnect is scheduled; the close event the dropped transport
\* reports later schedules no second reconnect and changes nothing of the
\* actor's connection.
C28_PingFailureIsOneAbnormalClose ==
  /\ [][PingFailed =>
          /\ socket' = 0
          /\ ~treeConnected'
          /\ reconnectTimeout']_vars
  /\ [][\A k \in TransportIds :
          (DroppedByPing(k) /\ lastEvent'.op = "close" /\ lastEvent'.k = k)
            => /\ reconnectTimeout' = reconnectTimeout
               /\ reconnectAttempts' = reconnectAttempts
               /\ socket' = socket
               /\ treeConnected' = treeConnected]_vars


\* C29: the completion signal of disconnect() is not resolved by the call
\* itself while a transport is open, connecting or closing after an earlier
\* disconnect(): it waits for the close event or the 1 s fallback; on an
\* actor without a transport the call resolves at once and leaves the
\* connection state as it was.
C29_DisconnectWaitsForClose ==
  [][(lastEvent'.op = "disconnect" /\ ~isCleaned) =>
       /\ socket = 0 =>
            /\ disconnectDone'
            /\ UNCHANGED <<socket, transports, treeConnected, isConnecting,
                           isCleanDisconnect, reconnectAttempts>>
       /\ (socket # 0 /\ transports[socket].readyState \in {"CONNECTING", "OPEN"})
            => ~disconnectDone'
       /\ (socket # 0 /\ transports[socket].readyState = "CLOSING"
                      /\ transports[socket].closeListener)
            => ~disconnectDone']_vars


\* The open event of transport k reaches the actor in this step.
OpenHandled(k) ==
  /\ transports[k].readyState = "CONNECTING"
  /\ transports[k].handlers
  /\ lastEvent'.op = "open"
  /\ lastEvent'.k = k

\* C30: on an open event the actor triggers the backfill fetch, once, if and
\* only if an open event has been handled before, since the actor's creation
\* or its last cleanup.
C30_BackfillOnReopenOnly ==
  [][\A k \in TransportIds :
       OpenHandled(k) =>
         /\ lastEvent'.outcome \in {"backfill", "no-backfill"}
         /\ lastEvent'.outcome = "backfill" <=> opens = 1]_vars

\* The actor is connected again after a close and the reopening triggered
\* the backfill.
C30_Witness ==
  /\ lastEvent.op = "open"
  /\ lastEvent.outcome = "backfill"
  /\ treeConnected
  /\ \E k \in TransportIds : transports[k].readyState = "CLOSED"


\* The connect-timeout guard of transport g fires in this step and finds the
\* actor connecting.
GuardActs(g) ==
  /\ isConnecting
  /\ transports[g].guard
  /\ ~transports'[g].guard
  /\ transports'[g].readyState = transports[g].readyState
  /\ transports'[g].closePending = transports[g].closePending
  /\ transports'[g].handlers = transports[g].handlers
  /\ staleGuards' = staleGuards

\* The same for a guard whose transport the actor has replaced and closed, or
\* whose transport was never created.
StaleGuardActs ==
  /\ isConnecting
  /\ staleGuards' = staleGuards - 1

\* C31: the connect-timeout guard acts only as the guard of an attempt whose
\* transport the actor still listens to and which has reported no open,
\* error or close event; when it acts the actor leaves Connecting, the
\* connectivity status is false and a reconnect timer is pending.
C31_GuardFiresForItsPendingAttempt ==
  /\ [][\A g \in TransportIds :
          GuardActs(g) => /\ ~isConnecting'
                          /\ ~treeConnected'
                          /\ reconnectTimeout']_vars
  /\ [](\A g \in TransportIds :
          transports[g].guard =>
            /\ transports[g].handlers
            /\ transports[g].readyState \in {"CONNECTING", "CLOSING"}
            /\ ~transports[g].closePending)
  /\ [][~StaleGuardActs]_vars


\* C32: between the steps of the actor no handleError or handleClose body is
\* running: isHandlingErrorOrClose is false and no signal waits for the
\* 100 ms retry; each body runs as a whole, within the step of its event.
C32_HandlersNeverOverlap ==
  /\ ~isHandlingErrorOrClose
  /\ deferredSignals = 0

\* The close event of a failed transport has been handled and its reconnect
\* is scheduled.
C32_Witness ==
  /\ lastEvent.op = "close"
  /\ lastEvent.outcome = "unclean"
  /\ lastFailure = "close"
  /\ scheduled >= 1
  /\ ~isHandlingErrorOrClose


\* Transport k reports its open event in this step.
OpenEvent(k) ==
  /\ transports[k].readyState = "CONNECTING"
  /\ lastEvent'.op = "open"
  /\ lastEvent'.k = k

\* C33: the open event of a transport created by connect(url, token) sends
\* one frame 'login <token>' on that transport if a token was passed, and no
\* frame if none was; no other step sends a login frame.
C33_OneLoginPerOpen ==
  /\ [][\A k \in TransportIds :
          OpenEvent(k) =>
            loginFrame' = IF transports[k].token # ""
                          THEN [k |-> k, token |-> transports[k].token]
                          ELSE NoLoginFrame]_vars
  /\ [][lastEvent'.op # "open" => loginFrame' = NoLoginFrame]_vars


\* The transport the actor holds reports its error event in this step.
ErrorOfHeldTransport ==
  /\ socket # 0
  /\ ~transports[socket].closePending
  /\ transports'[socket].closePending

\* C34: the connectivity status of the source is false after every close
\* event and error event of the transport the actor holds, after a
\* connect-timeout guard has acted, when a disconnect() completes and after
\* cleanup().
C34_StatusFalseAfterLoss ==
  /\ [][(lastEvent'.op = "close" /\ lastEvent'.k = socket)
          => ~treeConnected']_vars
  /\ [][ErrorOfHeldTransport => ~treeConnected']_vars
  /\ [][((\E g \in TransportIds : GuardActs(g)) \/ StaleGuardActs)
          => ~treeConnected']_vars
  /\ [][(disconnectDone' /\ ~disconnectDone) => ~treeConnected']_vars
  /\ [][lastEvent'.op = "cleanup" => ~treeConnected']_vars


\* An event that will clear isConnecting is still to come: a connect-timeout
\* guard is armed, or a transport the actor listens to is closing and its
\* close event will be handled as a failure.
ClearingEventToCome ==
  \/ staleGuards > 0
  \/ \E k \in TransportIds :
       \/ transports[k].guard
       \/ /\ transports[k].handlers
          /\ transports[k].readyState = "CLOSING" \/ transports[k].closePending
          /\ ~isCleaned
          /\ ~isCleanDisconnect

\* C35: whenever isConnecting is true, an event that clears it is still to
\* come, so the actor does not stay in Connecting for ever.
C35_NeverStuckConnecting == isConnecting => ClearingEventToCome


\* The error event of transport k is handled in this step.
ErrorHandled(k) ==
  /\ transports[k].handlers
  /\ ~isCleaned
  /\ ~transports[k].closePending
  /\ transports'[k].closePending

\* The close event that follows the error event of transport k is handled in
\* this step.
CloseAfterErrorHandled(k) ==
  /\ transports[k].handlers
  /\ ~isCleaned
  /\ transports[k].closePending
  /\ lastEvent'.op = "close"
  /\ lastEvent'.k = k

\* C36: at most one reconnect timer is pending; the error event of a failed
\* attempt increments reconnectAttempts by one and the close event that
\* follows it does not increment it again.
C36_OneTimerOneIncrement ==
  /\ [](reconnectTimers <= 1 /\ (reconnectTimeout <=> reconnectTimers = 1))
  /\ [][\A k \in TransportIds :
          (ErrorHandled(k) /\ lastFailure = "none")
            => reconnectAttempts'
                 = Min(reconnectAttempts + 1, maxReconnectAttempts)]_vars
  /\ [][\A k \in TransportIds :
          (CloseAfterErrorHandled(k) /\ lastFailure = "error")
            => reconnectAttempts' = reconnectAttempts]_vars


\* C37: a reconnect timer that fires while the actor holds an open transport
\* leaves the actor's transport and every transport as they are, and no
\* reconnect timer is pending after it.
C37_TimerOnConnectedActorIsNoOp ==
  [][(Connected /\ lastEvent'.op = "reconnect") =>
       /\ lastEvent'.outcome \in {"connected", "cleaned", "connecting"}
       /\ socket' = socket
       /\ transports' = transports
       /\ treeConnected' = treeConnected
       /\ ~reconnectTimeout'
       /\ reconnectTimers' = 0]_vars

\* The reconnect timer armed by the connect-timeout guard has fired after the
\* transport had opened, and the actor is still connected.
C37_Witness ==
  /\ lastEvent.op = "reconnect"
  /\ lastEvent.outcome = "connected"
  /\ Connected
  /\ treeConnected
  /\ ~reconnectTimeout


\* ------------------------------------------------------------ C38
\* The ids of the repost-type events among the delivered events.
RepostIds == {x._id : x \in {y \in NewsItems : isTwitterOrXPost(y)}}

\* C38: while showTwitterPosts is off, a step adds no repost-type event to
\* the news list and sends no notification request for one.
C38_NoRepostEntersWhileOff ==
  [][~showTwitterPosts =>
       /\ \A i \in DOMAIN news' :
            isTwitterOrXPost(news'[i]) => \E j \in DOMAIN news : news[j] = news'[i]
       /\ \A i \in DOMAIN notifRequests' :
            i > Len(notifRequests) => notifRequests'[i].id \notin RepostIds]_vars


\* ------------------------------------------------------------ C39
\* C39: a notification request is sent only for an event that is in the news
\* list when the insert returns.
C39_NotifiedEventIsRetained ==
  [][\A i \in DOMAIN notifRequests' :
       i > Len(notifRequests)
         => \E j \in DOMAIN news' : news'[j]._id = notifRequests'[i].id]_vars


\* ------------------------------------------------------------ C40
\* The catch block of the backfill of src runs in this step.
FetchFails(src) ==
  /\ inflight[src].busy
  /\ ~inflight'[src].busy
  /\ lastOp'.op = "fetchFail"

\* C40: a failed backfill sets the error state, leaves isLoading false and
\* leaves the news list alone, except that a Source-A failure fills a list
\* that is empty at that moment with the fallback mock events.
C40_FailedFetchKeepsTheStore ==
  [][\A src \in Sources :
       FetchFails(src)
         => /\ storeError' # ""
            /\ ~isLoading'
            /\ \/ news' = news
               \/ src = "tree" /\ news = <<>> /\ news' = mockNews]_vars

====
